---- MODULE Spec2Model ----
(***************************************************************************)
(* Channel-check engine (src/src/cct.py): port catalogue loading, port      *)
(* classification, threshold pruning with its per-TX cache, the netlist of  *)
(* each TX scenario, the simulation sweep with its waveform storage, and    *)
(* the metrics of the report.                                               *)
(*                                                                          *)
(* Text is modelled as a sequence of one-character strings, so that         *)
(* prefix_port_name is computed character by character.                    *)
(***************************************************************************)
EXTENDS Integers, Sequences, FiniteSets, TLC

VARIABLES
    phase,                  \* "new" | "ready" | "failed": position of CCT.__init__
    raw,                    \* the "ports" list of the metadata file, as read by json.load
    port_metadata,          \* CCT.port_metadata
    renormalized,           \* result of loading the written-back port_metadata again
    network,                \* CCT._network: None, or [s |-> |S| per [frequency][rx][tx]]
    threshold_db,           \* CCT.threshold_db
    tx_config,              \* CCT.tx_config
    rx_config,              \* CCT.rx_config
    txs,                    \* CCT.txs
    rxs,                    \* CCT.rxs
    tx_gen,                 \* number of set_txs calls: the identity of the Tx objects
    prune_cache,            \* CCT._prune_cache
    prerun_summaries,       \* CCT._prerun_summaries
    prune_warning_emitted,  \* CCT._prune_warning_emitted
    warnings,               \* number of "pruning disabled" lines printed
    classified,             \* result of the last _group_differential call
    last_op,                \* the operation that produced this state, and its outcome
    waveforms,              \* rx.waveforms of every object of CCT.rxs, in list order
    netlists,               \* the netlists handed to the driver by the last run call
    run_count,              \* number of run calls so far
    report,                 \* what the last calculate call wrote
    sig_in,                 \* arguments of a get_sig_isi call
    sig_out                 \* its result

vars == <<phase, raw, port_metadata, renormalized, network, threshold_db, tx_config,
          rx_config, txs, rxs, tx_gen, prune_cache, prerun_summaries,
          prune_warning_emitted, warnings, classified, last_op,
          waveforms, netlists, run_count, report, sig_in, sig_out>>

\* the state of the simulation sweep and of the metrics
sweepVars == <<waveforms, netlists, run_count, report, sig_in, sig_out>>

\* Python's None where a string is expected / where an object is expected
None == "<None>"
NoneRec == [none |-> TRUE]

\* a float in dB: finite, or float('-inf')
Db(v) == [neg_inf |-> FALSE, value |-> v]
NegInf == [neg_inf |-> TRUE, value |-> 0]

\* ------------------------------------------------------------------ bounds
MaxNameLen == 3
MaxRawPorts == 2
MaxDeclSeq == 3

\* ------------------------------------------------------------------ text
Chars == {"1", "_", "x", " "}

IsDigit(c) == c \in {"0", "1", "2", "3", "4", "5", "6", "7", "8", "9"}

IsSpace(c) == c \in {" "}

DigitChar(d) ==
    CASE d = 0 -> "0" [] d = 1 -> "1" [] d = 2 -> "2" [] d = 3 -> "3" [] d = 4 -> "4"
      [] d = 5 -> "5" [] d = 6 -> "6" [] d = 7 -> "7" [] d = 8 -> "8" [] d = 9 -> "9"

\* str(n) for n >= 0
RECURSIVE Str(_)
Str(n) == IF n < 10 THEN <<DigitChar(n)>> ELSE Str(n \div 10) \o <<DigitChar(n % 10)>>

RECURSIVE LeadingDigits(_)
LeadingDigits(s) ==
    IF s # <<>> /\ IsDigit(Head(s)) THEN 1 + LeadingDigits(Tail(s)) ELSE 0

RECURSIVE LStrip(_)
LStrip(s) == IF s # <<>> /\ IsSpace(Head(s)) THEN LStrip(Tail(s)) ELSE s

RECURSIVE RStrip(_)
RStrip(s) ==
    IF s # <<>> /\ IsSpace(s[Len(s)]) THEN RStrip(SubSeq(s, 1, Len(s) - 1)) ELSE s

Strip(s) == RStrip(LStrip(s))

\* re.match(r'^\d+_(.*)$', base) and its group(1)
PrefixMatch(base) ==
    LET k == LeadingDigits(base)
    IN  IF k >= 1 /\ Len(base) > k /\ base[k + 1] = "_"
        THEN [matched |-> TRUE, group |-> SubSeq(base, k + 2, Len(base))]
        ELSE [matched |-> FALSE, group |-> <<>>]

prefix_port_name(name, sequence) ==
    LET m == PrefixMatch(name)
        base == Strip(IF m.matched THEN m.group ELSE name)
    IN  IF base # <<>> THEN Str(sequence) \o <<"_">> \o base ELSE Str(sequence)

\* ------------------------------------------------------------------ normalisers
\* str.lower() on the role, net type and polarity strings the inputs are drawn from
Lower(s) ==
    CASE s = "Controller" -> "controller"
      [] s = "CTRL" -> "ctrl"
      [] s = "Host" -> "host"
      [] s = "Memory" -> "memory"
      [] s = "DRAM" -> "dram"
      [] s = "Diff" -> "diff"
      [] s = "Differential" -> "differential"
      [] s = "Single" -> "single"
      [] s = "POS" -> "pos"
      [] s = "N" -> "n"
      [] s = "Switch" -> "switch"
      [] OTHER -> s

\* "not value" for a string or None
Falsy(value) == value = None \/ value = ""

_normalize_role(value) ==
    IF Falsy(value) THEN "unknown"
    ELSE LET v == Lower(value)
         IN  IF v \in {"controller", "ctrl", "host"} THEN "controller"
             ELSE IF v \in {"dram", "memory", "mem"} THEN "dram"
             ELSE v

_normalize_net_type(value) ==
    IF Falsy(value) THEN "single"
    ELSE LET v == Lower(value)
         IN  IF v \in {"diff", "differential"} THEN "differential" ELSE "single"

_normalize_polarity(value) ==
    IF value = None THEN None
    ELSE LET v == Lower(value)
         IN  IF v \in {"positive", "pos", "+", "p"} THEN "positive"
             ELSE IF v \in {"negative", "neg", "-", "n"} THEN "negative"
             ELSE v

\* ------------------------------------------------------------------ load_port_metadata
\* PortMetadata(...) built from one item of raw["ports"]; index is its 1-based position.
\* item.sequence is <<n>>, or <<>> when the item has no "sequence" key
ParseEntry(item, index) ==
    [sequence       |-> IF item.sequence = <<>> THEN index ELSE item.sequence[1],
     name           |-> item.name,
     component      |-> item.component,
     component_role |-> _normalize_role(item.component_role),
     net            |-> item.net,
     net_type       |-> _normalize_net_type(item.net_type),
     pair           |-> item.pair,
     polarity       |-> _normalize_polarity(item.polarity)]

ParseEntries(items) == [i \in 1..Len(items) |-> ParseEntry(items[i], i)]

\* list.sort(key=sequence): stable insertion of e into an already sorted list
RECURSIVE InsertBySequence(_, _)
InsertBySequence(sorted, e) ==
    IF sorted = <<>> THEN <<e>>
    ELSE IF sorted[Len(sorted)].sequence <= e.sequence THEN Append(sorted, e)
    ELSE Append(InsertBySequence(SubSeq(sorted, 1, Len(sorted) - 1), e), sorted[Len(sorted)])

RECURSIVE SortBySequence(_)
SortBySequence(entries) ==
    IF entries = <<>> THEN <<>>
    ELSE InsertBySequence(SortBySequence(SubSeq(entries, 1, Len(entries) - 1)),
                          entries[Len(entries)])

Renumber(entries) ==
    [idx \in 1..Len(entries) |->
        [entries[idx] EXCEPT !.sequence = idx,
                             !.name = prefix_port_name(entries[idx].name, idx)]]

\* ok = FALSE stands for the ValueError("No ports found in metadata file")
load_port_metadata_accepts_empty(items) ==
    [ok |-> TRUE, entries |-> Renumber(SortBySequence(ParseEntries(items)))]

load_port_metadata(items) ==
    LET entries == ParseEntries(items)
    IN  IF entries = <<>> THEN [ok |-> FALSE, entries |-> <<>>]
        ELSE [ok |-> TRUE, entries |-> Renumber(SortBySequence(entries))]

\* the metadata file rewritten from loaded entries: what a second load reads
AsItems(entries) ==
    [i \in 1..Len(entries) |->
        [sequence       |-> <<entries[i].sequence>>,
         name           |-> entries[i].name,
         component      |-> entries[i].component,
         component_role |-> entries[i].component_role,
         net            |-> entries[i].net,
         net_type       |-> entries[i].net_type,
         pair           |-> entries[i].pair,
         polarity       |-> entries[i].polarity]]

\* ------------------------------------------------------------------ classification
\* sorted([a, b]) on one-character net names
NetRank(n) == CASE n = "A" -> 1 [] n = "B" -> 2 [] n = "D" -> 3 [] n = "E" -> 4 [] OTHER -> 5

_diff_identifier(positive, negative) ==
    IF NetRank(positive.net) <= NetRank(negative.net)
    THEN <<positive.net, negative.net>>
    ELSE <<negative.net, positive.net>>

EmptyMapping == [x \in {} |-> NoneRec]

\* position of key in the insertion-ordered dict, 0 when absent
RECURSIVE GroupIndex(_, _)
GroupIndex(groups, key) ==
    IF groups = <<>> THEN 0
    ELSE IF groups[Len(groups)].key = key THEN Len(groups)
    ELSE GroupIndex(SubSeq(groups, 1, Len(groups) - 1), key)

BucketKeyIgnoringComponent(entry) == <<"*", IF Falsy(entry.pair) THEN entry.net ELSE entry.pair>>

BucketKey(entry) == <<entry.component, IF Falsy(entry.pair) THEN entry.net ELSE entry.pair>>

\* the loop over source in _group_differential: groups is the dict, in insertion order
RECURSIVE GroupBuckets(_, _, _)
GroupBuckets(role, source, groups) ==
    IF source = <<>> THEN groups
    ELSE LET entry == Head(source)
         IN  IF entry.component_role # role \/ entry.net_type # "differential"
             THEN GroupBuckets(role, Tail(source), groups)
             ELSE LET key == BucketKey(entry)
                      idx == GroupIndex(groups, key)
                      mapping == IF idx = 0 THEN EmptyMapping ELSE groups[idx].mapping
                      suggested == IF "positive" \notin DOMAIN mapping
                                   THEN "positive" ELSE "negative"
                      polarity == IF Falsy(entry.polarity) THEN suggested ELSE entry.polarity
                      updated == (polarity :> entry) @@ mapping
                  IN  GroupBuckets(role, Tail(source),
                          IF idx = 0
                          THEN Append(groups, [key |-> key, mapping |-> updated])
                          ELSE [groups EXCEPT ![idx].mapping = updated])

MinSeq(item) == IF item.pos.sequence <= item.neg.sequence
                THEN item.pos.sequence ELSE item.neg.sequence

RECURSIVE InsertByMinSeq(_, _)
InsertByMinSeq(sorted, item) ==
    IF sorted = <<>> THEN <<item>>
    ELSE IF MinSeq(sorted[Len(sorted)]) <= MinSeq(item) THEN Append(sorted, item)
    ELSE Append(InsertByMinSeq(SubSeq(sorted, 1, Len(sorted) - 1), item), sorted[Len(sorted)])

\* the loop over groups.items(), then pairs.sort(key=min sequence)
RECURSIVE CompletePairs(_)
CompletePairs(groups) ==
    IF groups = <<>> THEN <<>>
    ELSE LET rest == CompletePairs(SubSeq(groups, 1, Len(groups) - 1))
             mapping == groups[Len(groups)].mapping
         IN  IF "positive" \in DOMAIN mapping /\ "negative" \in DOMAIN mapping
             THEN InsertByMinSeq(rest, [pos |-> mapping["positive"], neg |-> mapping["negative"]])
             ELSE rest

_group_differential_backwards(role, entries) ==
    CompletePairs(GroupBuckets(role, [i \in 1..Len(entries) |-> entries[Len(entries) + 1 - i]],
                               <<>>))

_group_differential(role, entries) == CompletePairs(GroupBuckets(role, entries, <<>>))

_classify_port_groups(entries) ==
    [tx_single |-> SortBySequence(SelectSeq(entries,
                     LAMBDA e : e.component_role = "controller" /\ e.net_type = "single")),
     rx_single |-> SortBySequence(SelectSeq(entries,
                     LAMBDA e : e.component_role = "dram" /\ e.net_type = "single")),
     tx_diff   |-> _group_differential("controller", entries),
     rx_diff   |-> _group_differential("dram", entries)]

Range(s) == {s[i] : i \in 1..Len(s)}

\* the fields _classify_ports derives from port_metadata in CCT.__init__
tx_single_entries == _classify_port_groups(port_metadata).tx_single
rx_single_entries == _classify_port_groups(port_metadata).rx_single
tx_diff_entries == _classify_port_groups(port_metadata).tx_diff
rx_diff_entries == _classify_port_groups(port_metadata).rx_diff

_controller_sequences_single_only == {e.sequence : e \in Range(tx_single_entries)}

_controller_sequences ==
    {e.sequence : e \in Range(tx_single_entries)}
        \cup UNION {{p.pos.sequence, p.neg.sequence} : p \in Range(tx_diff_entries)}

_rx_total_groups == Len(rx_single_entries) + Len(rx_diff_entries)
_rx_total_ports == Len(rx_single_entries) + 2 * Len(rx_diff_entries)

\* ------------------------------------------------------------------ Tx / Rx objects
\* a one-character string as text
Text(s) == <<s>>

\* owner tells the objects of one _create_tx_objects call from those of another:
\* two Tx records are equal exactly when they are the same Python object
Tx(meta, cfg, owner) ==
    [kind |-> "single", legs |-> <<meta>>, sequence |-> meta.sequence,
     label |-> meta.name, key |-> meta.net, cfg |-> cfg, owner |-> owner]

Tx_diff(positive, negative, cfg, owner) ==
    [kind |-> "diff", legs |-> <<positive, negative>>,
     sequence |-> MinSeq([pos |-> positive, neg |-> negative]),
     label |-> IF Falsy(positive.pair)
               THEN positive.name \o <<"/">> \o negative.name
               ELSE Text(positive.pair),
     key |-> _diff_identifier(positive, negative), cfg |-> cfg, owner |-> owner]

Rx(meta, cfg, expected_tx) ==
    [kind |-> "single", legs |-> <<meta>>, label |-> meta.name, key |-> meta.net,
     cfg |-> cfg, expected_tx |-> expected_tx]

Rx_diff(positive, negative, cfg, expected_tx) ==
    [kind |-> "diff", legs |-> <<positive, negative>>,
     label |-> IF Falsy(positive.pair)
               THEN positive.name \o <<"/">> \o negative.name
               ELSE Text(positive.pair),
     key |-> _diff_identifier(positive, negative), cfg |-> cfg, expected_tx |-> expected_tx]

\* dict.get on a map filled in list order (a later object of the same key replaces
\* an earlier one): tx_single_map / tx_diff_map / rx_single_map / rx_diff_map
RECURSIVE MapGet(_, _, _)
MapGet(objs, kind, key) ==
    IF objs = <<>> THEN NoneRec
    ELSE IF objs[Len(objs)].kind = kind /\ objs[Len(objs)].key = key THEN objs[Len(objs)]
    ELSE MapGet(SubSeq(objs, 1, Len(objs) - 1), kind, key)

_create_tx_objects(single_entries, diff_entries, cfg, owner) ==
    [i \in 1..Len(single_entries) |-> Tx(single_entries[i], cfg, owner)]
        \o [i \in 1..Len(diff_entries) |->
               Tx_diff(diff_entries[i].pos, diff_entries[i].neg, cfg, owner)]

_create_rx_objects(single_entries, diff_entries, cfg, tx_objs) ==
    [i \in 1..Len(single_entries) |->
        Rx(single_entries[i], cfg, MapGet(tx_objs, "single", single_entries[i].net))]
        \o [i \in 1..Len(diff_entries) |->
               Rx_diff(diff_entries[i].pos, diff_entries[i].neg, cfg,
                       MapGet(tx_objs, "diff",
                              _diff_identifier(diff_entries[i].pos, diff_entries[i].neg)))]

\* ("diff", "a::b") or ("single", net)
_tx_to_key(tx) == <<tx.kind, tx.key>>

_rx_to_key(rx) == <<rx.kind, rx.key>>

\* ------------------------------------------------------------------ pruning
\* 20 * math.log10(peak) on the magnitudes the networks are drawn from
Log10(m) == CASE m = 1 -> 0 [] m = 10 -> 1 [] m = 100 -> 2

PeakDb(peak) == IF peak > 0 THEN Db(20 * Log10(peak)) ELSE NegInf

\* a >= b on floats that may be -inf
DbGeq(a, b) ==
    IF b.neg_inf THEN TRUE
    ELSE IF a.neg_inf THEN FALSE
    ELSE a.value >= b.value

SetMax(S) == CHOOSE x \in S : \A y \in S : y <= x

\* max over the frequency axis and the index pairs of |s[:, rx_idx, tx_idx]|,
\* starting from peak = 0.0; a port of sequence q has index q - 1
PeakMagnitude(rx_sequences, tx_sequences) ==
    SetMax({0} \cup {network.s[f][r][t] :
                        f \in 1..Len(network.s), r \in rx_sequences, t \in tx_sequences})

KeepByPeakReversed(rx_sequences, tx_sequences, threshold) ==
    DbGeq(threshold, PeakDb(PeakMagnitude(rx_sequences, tx_sequences)))

KeepByPeak(rx_sequences, tx_sequences, threshold) ==
    DbGeq(PeakDb(PeakMagnitude(rx_sequences, tx_sequences)), threshold)

LegSequences(obj) == {obj.legs[i].sequence : i \in 1..Len(obj.legs)}

KeptSequencesWithoutPartner(tx, threshold) ==
    IF threshold = NoneRec \/ network = NoneRec
    THEN _controller_sequences \cup 1..Len(port_metadata)
    ELSE LET tx_sequences == LegSequences(tx)
             single_kept ==
                 {e \in Range(rx_single_entries) :
                     KeepByPeak({e.sequence}, tx_sequences, threshold)}
             diff_kept ==
                 {p \in Range(rx_diff_entries) :
                     KeepByPeak({p.pos.sequence, p.neg.sequence}, tx_sequences, threshold)}
         IN  _controller_sequences
                \cup {e.sequence : e \in single_kept}
                \cup UNION {{p.pos.sequence, p.neg.sequence} : p \in diff_kept}

\* the kept_sequences set of _compute_prune_result for tx at the given threshold
KeptSequences(tx, threshold) ==
    IF threshold = NoneRec \/ network = NoneRec
    THEN _controller_sequences \cup 1..Len(port_metadata)
    ELSE LET tx_sequences == LegSequences(tx)
             single_kept ==
                 {e \in Range(rx_single_entries) :
                     LET base_rx == MapGet(rxs, "single", e.net)
                     IN  IF base_rx # NoneRec /\ base_rx.expected_tx = tx THEN TRUE
                         ELSE KeepByPeak({e.sequence}, tx_sequences, threshold)}
             diff_kept ==
                 {p \in Range(rx_diff_entries) :
                     LET base_rx == MapGet(rxs, "diff", _diff_identifier(p.pos, p.neg))
                     IN  IF base_rx # NoneRec /\ base_rx.expected_tx = tx THEN TRUE
                         ELSE KeepByPeak({p.pos.sequence, p.neg.sequence},
                                         tx_sequences, threshold)}
         IN  _controller_sequences
                \cup {e.sequence : e \in single_kept}
                \cup UNION {{p.pos.sequence, p.neg.sequence} : p \in diff_kept}

\* sorted(set)
RECURSIVE SortedSeq(_)
SortedSeq(S) ==
    IF S = {} THEN <<>>
    ELSE LET m == SetMax(S) IN Append(SortedSeq(S \ {m}), m)

_metadata_by_sequence(sequence) ==
    CHOOSE e \in Range(port_metadata) : e.sequence = sequence

_clone_port(entry, new_sequence) ==
    [entry EXCEPT !.sequence = new_sequence,
                  !.name = prefix_port_name(entry.name, new_sequence)]

TrimmedMetadataKeepNumbers(kept_sorted) ==
    [i \in 1..Len(kept_sorted) |-> _metadata_by_sequence(kept_sorted[i])]

TrimmedMetadata(kept_sorted) ==
    [i \in 1..Len(kept_sorted) |-> _clone_port(_metadata_by_sequence(kept_sorted[i]), i)]

\* re.sub(r'[^A-Za-z0-9_.-]+', '_', label)
LabelCharOk(c) == IsDigit(c) \/ c \in {"_", ".", "-", "x", "P", "Q"}

RECURSIVE SubRuns(_, _)
SubRuns(label, in_run) ==
    IF label = <<>> THEN <<>>
    ELSE IF LabelCharOk(Head(label)) THEN <<Head(label)>> \o SubRuns(Tail(label), FALSE)
    ELSE IF in_run THEN SubRuns(Tail(label), TRUE)
    ELSE <<"_">> \o SubRuns(Tail(label), TRUE)

RECURSIVE StripUnderscores(_)
StripUnderscores(s) ==
    IF s # <<>> /\ Head(s) = "_" THEN StripUnderscores(Tail(s))
    ELSE IF s # <<>> /\ s[Len(s)] = "_" THEN StripUnderscores(SubSeq(s, 1, Len(s) - 1))
    ELSE s

_sanitize_label(label) ==
    LET sanitized == StripUnderscores(SubRuns(label, FALSE))
    IN  IF sanitized = <<>> THEN <<"t", "x">> ELSE sanitized

\* _compute_prune_result past its precondition; threshold_db_now is self.threshold_db
\* at the time of the call.  "under" records the TX object, the threshold and the
\* configurations the computation read.
_compute_prune_result(tx, threshold_db_now) ==
    LET kept_sorted == SortedSeq(KeptSequences(tx, threshold_db_now))
        trimmed == TrimmedMetadata(kept_sorted)
        groups == _classify_port_groups(trimmed)
        new_txs == _create_tx_objects(groups.tx_single, groups.tx_diff, tx_config, "trimmed")
        new_rxs == _create_rx_objects(groups.rx_single, groups.rx_diff, rx_config, new_txs)
        kept_rx_group_count == Len(groups.rx_single) + Len(groups.rx_diff)
        kept_rx_port_count == Len(groups.rx_single) + 2 * Len(groups.rx_diff)
        touchstone_path ==
            IF threshold_db_now # NoneRec /\ network # NoneRec /\ kept_rx_group_count < _rx_total_groups
            THEN [file |-> "trimmed", label |-> _sanitize_label(tx.label),
                  port_count |-> Len(kept_sorted), ports |-> kept_sorted]
            ELSE [file |-> "original"]
    IN  [kept_sequences   |-> kept_sorted,
         trimmed_metadata |-> trimmed,
         touchstone_path  |-> touchstone_path,
         txs              |-> new_txs,
         rxs              |-> new_rxs,
         stats |-> [tx_label             |-> tx.label,
                    threshold_db         |-> threshold_db_now,
                    kept_port_count      |-> Len(kept_sorted),
                    total_port_count     |-> Len(port_metadata),
                    kept_rx_port_count   |-> kept_rx_port_count,
                    total_rx_port_count  |-> _rx_total_ports,
                    kept_rx_group_count  |-> kept_rx_group_count,
                    total_rx_group_count |-> _rx_total_groups,
                    touchstone_path      |-> touchstone_path],
         under |-> [tx |-> tx, threshold_db |-> threshold_db_now, tx_config |-> tx_config,
                    rx_config |-> rx_config]]

WarnsEveryTime(threshold_db_now, emitted) ==
    threshold_db_now # NoneRec /\ network = NoneRec

\* the condition of the "pruning disabled" print of _compute_prune_result, emitted
\* being _prune_warning_emitted at that point
Warns(threshold_db_now, emitted) ==
    threshold_db_now # NoneRec /\ network = NoneRec /\ ~emitted

\* the one-time "pruning disabled" print of _compute_prune_result
WarnsNow(threshold_db_now) == Warns(threshold_db_now, prune_warning_emitted)

\* ------------------------------------------------------------------ inputs
MaxPorts == 3
MaxEnginePorts == 3
MaxTxGen == 2
NumFreq == 1

MagLevels == {0, 1, 10}

\* |s| of the entries the pruning never reads (reflections, TX to TX, ...)
OtherLevels == {0, 100}

PruneThresholds == {NoneRec, NegInf, Db(0), Db(10), Db(20), Db(30)}

EngineThresholds == {NoneRec, Db(0), Db(20)}

TxConfigs == {[vhigh |-> "0.8V", t_rise |-> "30ps", ui |-> "133ps",
               res_tx |-> "40ohm", cap_tx |-> "1pF"],
              [vhigh |-> "1.2V", t_rise |-> "30ps", ui |-> "133ps",
               res_tx |-> "50ohm", cap_tx |-> "1pF"]}

RxConfigs == {[res_rx |-> "30ohm", cap_rx |-> "1.8pF"],
              [res_rx |-> "60ohm", cap_rx |-> "1.8pF"]}

DefaultTxConfig == [vhigh |-> "0.8V", t_rise |-> "30ps", ui |-> "133ps",
                    res_tx |-> "40ohm", cap_tx |-> "1pF"]

DefaultRxConfig == [res_rx |-> "30ohm", cap_rx |-> "1.8pF"]

\* the kinds of port the pruning inputs are made of
PortKinds ==
    {[component |-> "U1", component_role |-> "controller", net |-> "A", net_type |-> "single"],
     [component |-> "U1", component_role |-> "controller", net |-> "B", net_type |-> "single"],
     [component |-> "U2", component_role |-> "dram", net |-> "A", net_type |-> "single"],
     [component |-> "U2", component_role |-> "dram", net |-> "B", net_type |-> "single"],
     [component |-> "U1", component_role |-> "controller", net |-> "D", net_type |-> "differential"],
     [component |-> "U2", component_role |-> "dram", net |-> "D", net_type |-> "differential"],
     [component |-> "U3", component_role |-> None, net |-> "A", net_type |-> "single"]}

RawItem(kind, sequence) ==
    [sequence |-> sequence, name |-> <<"x">>, component |-> kind.component,
     component_role |-> kind.component_role, net |-> kind.net,
     net_type |-> kind.net_type, pair |-> None, polarity |-> None]

SeqsUpTo(S, lo, hi) == UNION {[1..n -> S] : n \in lo..hi}

PruneInputs ==
    SeqsUpTo({RawItem(k, <<q>>) : k \in PortKinds, q \in 1..MaxDeclSeq}, 1, MaxPorts)

EngineInputs == SeqsUpTo({RawItem(k, <<>>) : k \in PortKinds}, 0, MaxEnginePorts)

\* the (rx, tx) sequence pairs whose entries the pruning can read
ReadPairs(entries) ==
    {<<r, t>> \in (1..Len(entries)) \X (1..Len(entries)) :
        entries[r].component_role = "dram" /\ entries[t].component_role = "controller"}

\* rf.Network(snp_path): None when scikit-rf is missing or the file does not load;
\* else |s| per [frequency][rx sequence][tx sequence]
NetworkChoices(entries) ==
    {NoneRec} \cup
    {[s |-> [f \in 1..NumFreq |->
        [r \in 1..Len(entries) |->
            [t \in 1..Len(entries) |->
                IF <<r, t>> \in ReadPairs(entries) THEN lv[f][<<r, t>>] ELSE other]]]] :
        lv \in [1..NumFreq -> [ReadPairs(entries) -> MagLevels]], other \in OtherLevels}

FixedNetworkChoices(entries) ==
    {NoneRec} \cup
    {[s |-> [f \in 1..NumFreq |->
        [r \in 1..Len(entries) |->
            [t \in 1..Len(entries) |->
                IF <<r, t>> \in ReadPairs(entries) THEN lv ELSE 0]]]] : lv \in {1, 10}}

\* ------------------------------------------------------------------ operations
\* no waveform stored, no run made, no report written
SweepIdle ==
    /\ waveforms = <<>> /\ netlists = <<>> /\ run_count = 0
    /\ report = NoneRec /\ sig_in = NoneRec /\ sig_out = NoneRec

EngineIdle ==
    /\ port_metadata = <<>> /\ renormalized = NoneRec /\ network = NoneRec
    /\ threshold_db = NoneRec /\ tx_config = NoneRec /\ rx_config = NoneRec
    /\ txs = <<>> /\ rxs = <<>> /\ tx_gen = 0
    /\ prune_cache = EmptyMapping /\ prerun_summaries = <<>>
    /\ prune_warning_emitted = FALSE /\ warnings = 0
    /\ classified = NoneRec /\ last_op = "new"

\* CCT.__init__: load_port_metadata, _classify_ports, the network; loaded_network is
\* what rf.Network(snp_path) yields (None when it cannot be loaded)
Construct(threshold, loaded_network) ==
    /\ phase = "new"
    /\ LET loaded == load_port_metadata(raw)
       IN  IF ~loaded.ok
           THEN /\ phase' = "failed"
                /\ last_op' = "__init__:ValueError"
                /\ UNCHANGED <<raw, port_metadata, network, threshold_db>>
           ELSE /\ phase' = "ready"
                /\ raw' = <<>>
                /\ port_metadata' = loaded.entries
                /\ threshold_db' = threshold
                /\ network' = loaded_network
                /\ last_op' = "__init__"
    /\ UNCHANGED <<renormalized, tx_config, rx_config, txs, rxs, tx_gen, prune_cache,
                   prerun_summaries, prune_warning_emitted, warnings, classified>>
    /\ UNCHANGED sweepVars

set_threshold(threshold) ==
    /\ phase = "ready"
    /\ threshold_db' = threshold
    /\ prune_cache' = EmptyMapping
    /\ prerun_summaries' = <<>>
    /\ last_op' = "set_threshold"
    /\ UNCHANGED <<phase, raw, port_metadata, renormalized, network, tx_config, rx_config,
                   txs, rxs, tx_gen, prune_warning_emitted, warnings, classified>>
    /\ UNCHANGED sweepVars

set_txs(cfg) ==
    /\ phase = "ready"
    /\ tx_gen < MaxTxGen
    /\ tx_config' = cfg
    /\ tx_gen' = tx_gen + 1
    /\ txs' = _create_tx_objects(tx_single_entries, tx_diff_entries, cfg, tx_gen + 1)
    /\ prune_cache' = EmptyMapping
    /\ prerun_summaries' = <<>>
    /\ last_op' = "set_txs"
    /\ UNCHANGED <<phase, raw, port_metadata, renormalized, network, threshold_db,
                   rx_config, rxs, prune_warning_emitted, warnings, classified>>
    /\ UNCHANGED sweepVars

set_rxs_keeps_cache(cfg) ==
    /\ phase = "ready"
    /\ IF tx_config = NoneRec
       THEN /\ last_op' = "set_rxs:RuntimeError"
            /\ UNCHANGED <<rx_config, rxs, waveforms>>
       ELSE /\ rx_config' = cfg
            /\ rxs' = _create_rx_objects(rx_single_entries, rx_diff_entries, cfg, txs)
            /\ waveforms' = [j \in 1..Len(rxs') |-> <<>>]
            /\ last_op' = "set_rxs"
    /\ UNCHANGED <<phase, raw, port_metadata, renormalized, network, threshold_db,
                   tx_config, txs, tx_gen, prune_cache, prerun_summaries,
                   prune_warning_emitted, warnings, classified>>
    /\ UNCHANGED <<netlists, run_count, report, sig_in, sig_out>>

set_rxs(cfg) ==
    /\ phase = "ready"
    /\ IF tx_config = NoneRec
       THEN /\ last_op' = "set_rxs:RuntimeError"
            /\ UNCHANGED <<rx_config, rxs, waveforms, prune_cache, prerun_summaries>>
       ELSE /\ rx_config' = cfg
            /\ rxs' = _create_rx_objects(rx_single_entries, rx_diff_entries, cfg, txs)
            /\ waveforms' = [j \in 1..Len(rxs') |-> <<>>]
            /\ prune_cache' = EmptyMapping
            /\ prerun_summaries' = <<>>
            /\ last_op' = "set_rxs"
    /\ UNCHANGED <<phase, raw, port_metadata, renormalized, network, threshold_db,
                   tx_config, txs, tx_gen, prune_warning_emitted, warnings, classified>>
    /\ UNCHANGED <<netlists, run_count, report, sig_in, sig_out>>

\* _ensure_prune_result over a list of TX objects, in order, from a given cache
RECURSIVE EnsureAll(_, _, _)
EnsureAll(list, cache, threshold) ==
    IF list = <<>> THEN cache
    ELSE LET key == _tx_to_key(Head(list))
         IN  EnsureAll(Tail(list),
                       IF key \in DOMAIN cache THEN cache
                       ELSE (key :> _compute_prune_result(Head(list), threshold)) @@ cache,
                       threshold)

\* _ensure_prune_result(tx) for a TX object of self.txs
_ensure_prune_result(tx) ==
    /\ phase = "ready"
    /\ IF _tx_to_key(tx) \in DOMAIN prune_cache
       THEN /\ last_op' = "ensure:cached"
            /\ UNCHANGED <<prune_cache, prune_warning_emitted, warnings>>
       ELSE IF tx_config = NoneRec \/ rx_config = NoneRec
       THEN /\ last_op' = "ensure:RuntimeError"
            /\ UNCHANGED <<prune_cache, prune_warning_emitted, warnings>>
       ELSE /\ prune_cache' = EnsureAll(<<tx>>, prune_cache, threshold_db)
            /\ prune_warning_emitted' = (prune_warning_emitted \/ WarnsNow(threshold_db))
            /\ warnings' = IF WarnsNow(threshold_db) THEN warnings + 1 ELSE warnings
            /\ last_op' = "ensure"
    /\ UNCHANGED <<phase, raw, port_metadata, renormalized, network, threshold_db, tx_config,
                   rx_config, txs, rxs, tx_gen, prerun_summaries, classified>>
    /\ UNCHANGED sweepVars

pre_run(threshold) ==
    /\ phase = "ready"
    /\ LET thr == IF threshold # NoneRec THEN threshold ELSE threshold_db
           cache0 == IF threshold # NoneRec THEN EmptyMapping ELSE prune_cache
           computes == \E i \in 1..Len(txs) : _tx_to_key(txs[i]) \notin DOMAIN cache0
       IN  /\ threshold_db' = thr
           /\ IF txs = <<>> \/ rxs = <<>>
              THEN /\ prune_cache' = cache0
                   /\ prerun_summaries' = IF threshold # NoneRec THEN <<>> ELSE prerun_summaries
                   /\ last_op' = IF threshold # NoneRec THEN "pre_run(threshold):RuntimeError"
                                 ELSE "pre_run:RuntimeError"
                   /\ UNCHANGED <<prune_warning_emitted, warnings>>
              ELSE /\ prune_cache' = EnsureAll(txs, cache0, thr)
                   /\ prerun_summaries' =
                        [i \in 1..Len(txs) |-> prune_cache'[_tx_to_key(txs[i])].stats]
                   /\ prune_warning_emitted' =
                        (prune_warning_emitted \/ (computes /\ WarnsNow(thr)))
                   /\ warnings' = IF computes /\ WarnsNow(thr) THEN warnings + 1 ELSE warnings
                   /\ last_op' = IF threshold # NoneRec THEN "pre_run(threshold)" ELSE "pre_run"
    /\ UNCHANGED <<phase, raw, port_metadata, renormalized, network, tx_config, rx_config,
                   txs, rxs, tx_gen, classified>>
    /\ UNCHANGED sweepVars

\* ------------------------------------------------------------------ the engine
Init ==
    /\ phase = "new"
    /\ raw \in EngineInputs
    /\ EngineIdle
    /\ SweepIdle

NewEngine ==
    \E t \in EngineThresholds, n \in FixedNetworkChoices(load_port_metadata(raw).entries) :
        Construct(t, n)
SetThreshold == \E t \in EngineThresholds : set_threshold(t)
SetTxs == \E cfg \in TxConfigs : set_txs(cfg)
SetRxs == \E cfg \in RxConfigs : set_rxs(cfg)
PreRun == \E t \in EngineThresholds : pre_run(t)
EnsurePruneResult == \E i \in 1..Len(txs) : _ensure_prune_result(txs[i])

Next == NewEngine \/ SetThreshold \/ SetTxs \/ SetRxs \/ PreRun \/ EnsurePruneResult

Spec == Init /\ [][Next]_vars

\* ------------------------------------------------------------------ pruning as a function
InitPrune ==
    /\ phase = "new"
    /\ raw \in PruneInputs
    /\ EngineIdle
    /\ SweepIdle

NewPruneEngine ==
    \E t \in PruneThresholds, n \in NetworkChoices(load_port_metadata(raw).entries) :
        Construct(t, n)
ConfigureTxs == set_txs(DefaultTxConfig)
ConfigureRxs == set_rxs(DefaultRxConfig)

NextPrune == NewPruneEngine \/ ConfigureTxs \/ ConfigureRxs \/ EnsurePruneResult

SpecPrune == InitPrune /\ [][NextPrune]_vars

\* ------------------------------------------------------------------ loading as a function
Names == SeqsUpTo(Chars, 0, MaxNameLen)

RawRoles == {None, "", "controller", "CTRL", "Host", "dram", "Memory", "unknown", "Switch"}

RawNetTypes == {None, "single", "Diff", "differential", "bus"}

RawPolarities == {None, "POS", "n", "x"}

NameInputs ==
    SeqsUpTo({[sequence |-> <<q>>, name |-> n, component |-> "U1",
               component_role |-> "controller", net |-> "A", net_type |-> "single",
               pair |-> None, polarity |-> None] : q \in 1..MaxDeclSeq, n \in Names},
             0, MaxRawPorts)

RoleInputs ==
    SeqsUpTo({[sequence |-> <<>>, name |-> <<"x">>, component |-> "U1",
               component_role |-> r, net |-> "A", net_type |-> t,
               pair |-> None, polarity |-> q] :
                  r \in RawRoles, t \in RawNetTypes, q \in RawPolarities},
             1, MaxRawPorts)

InitLoad ==
    /\ phase = "new"
    /\ raw \in NameInputs \cup RoleInputs
    /\ EngineIdle
    /\ SweepIdle

\* load_port_metadata(path) called on its own
Load ==
    /\ phase = "new"
    /\ LET loaded == load_port_metadata(raw)
       IN  IF ~loaded.ok
           THEN /\ phase' = "failed"
                /\ last_op' = "load_port_metadata:ValueError"
                /\ UNCHANGED <<raw, port_metadata>>
           ELSE /\ phase' = "loaded"
                /\ raw' = <<>>
                /\ port_metadata' = loaded.entries
                /\ last_op' = "load_port_metadata"
    /\ UNCHANGED <<renormalized, network, threshold_db, tx_config, rx_config, txs, rxs,
                   tx_gen, prune_cache, prerun_summaries, prune_warning_emitted, warnings,
                   classified>>
    /\ UNCHANGED sweepVars

\* the loaded list written back and loaded again: sort, renumber, rename once more
Renormalize ==
    /\ phase = "loaded"
    /\ renormalized = NoneRec
    /\ renormalized' = load_port_metadata(AsItems(port_metadata))
    /\ last_op' = "renormalize"
    /\ UNCHANGED <<phase, raw, port_metadata, network, threshold_db, tx_config, rx_config,
                   txs, rxs, tx_gen, prune_cache, prerun_summaries, prune_warning_emitted,
                   warnings, classified>>
    /\ UNCHANGED sweepVars

NextLoad == Load \/ Renormalize

SpecLoad == InitLoad /\ [][NextLoad]_vars

\* ------------------------------------------------------------------ classification as a function
MaxClassifyPorts == 3

ClassifyKinds ==
    {[component |-> c, component_role |-> r, net |-> "A", net_type |-> "single",
      pair |-> None, polarity |-> None] : c \in {"U1"}, r \in {"controller", "dram"}}
    \cup
    {[component |-> c, component_role |-> r, net |-> k[1], net_type |-> "differential",
      pair |-> k[2], polarity |-> q] :
         c \in {"U1", "U2"}, r \in {"controller", "dram"},
         k \in {<<"A", None>>, <<"B", None>>, <<"B", "A">>},
         q \in {None, "positive", "negative"}}

\* port lists as load_port_metadata leaves them: sequence 1..N in list order
ClassifyInputs ==
    {Renumber([i \in 1..Len(ks) |->
                 [sequence |-> i, name |-> <<"x">>, component |-> ks[i].component,
                  component_role |-> ks[i].component_role, net |-> ks[i].net,
                  net_type |-> ks[i].net_type, pair |-> ks[i].pair,
                  polarity |-> ks[i].polarity]]) :
        ks \in SeqsUpTo(ClassifyKinds, 1, MaxClassifyPorts)}

InitClassify ==
    /\ phase = "ready"
    /\ raw = <<>>
    /\ port_metadata \in ClassifyInputs
    /\ renormalized = NoneRec /\ network = NoneRec
    /\ threshold_db = NoneRec /\ tx_config = NoneRec /\ rx_config = NoneRec
    /\ txs = <<>> /\ rxs = <<>> /\ tx_gen = 0
    /\ prune_cache = EmptyMapping /\ prerun_summaries = <<>>
    /\ prune_warning_emitted = FALSE /\ warnings = 0
    /\ classified = NoneRec /\ last_op = "__init__"
    /\ SweepIdle

\* self._group_differential(role, self.port_metadata)
GroupDifferential(role) ==
    /\ phase = "ready"
    /\ classified' = [role |-> role, pairs |-> _group_differential(role, port_metadata)]
    /\ last_op' = "_group_differential"
    /\ UNCHANGED <<phase, raw, port_metadata, renormalized, network, threshold_db, tx_config,
                   rx_config, txs, rxs, tx_gen, prune_cache, prerun_summaries,
                   prune_warning_emitted, warnings>>
    /\ UNCHANGED sweepVars

GroupControllers == GroupDifferential("controller")
GroupDrams == GroupDifferential("dram")

NextClassify == GroupControllers \/ GroupDrams

SpecClassify == InitClassify /\ [][NextClassify]_vars

\* ------------------------------------------------------------------ netlists
\* one element line of a netlist: "<elem><pid> <plus>_<pid> <minus> <value>"; a source
\* line has value PULSE(0 <factor><vhigh> 1e-10 <t_rise> <t_rise> <ui> 1.5e+100)
ElementLine(elem, pid, plus, minus, value) ==
    [elem |-> elem, pid |-> pid, plus |-> plus, minus |-> minus, value |-> value,
     factor |-> "", vhigh |-> "", t_rise |-> "", ui |-> ""]

SourceLine(pid, factor, cfg) ==
    [elem |-> "V", pid |-> pid, plus |-> "netb", minus |-> "0", value |-> "PULSE",
     factor |-> factor, vhigh |-> cfg.vhigh, t_rise |-> cfg.t_rise, ui |-> cfg.ui]

\* the R and C lines of one TX leg
TxLegPassive(pid, cfg) ==
    <<ElementLine("R", pid, "netb", "net", cfg.res_tx),
      ElementLine("C", pid, "netb", "0", cfg.cap_tx)>>

\* Tx.active / Tx_diff.active
TxActiveBothPositive(tx) ==
    IF tx.kind = "single"
    THEN <<SourceLine(tx.legs[1].sequence, "", tx.cfg)>>
            \o TxLegPassive(tx.legs[1].sequence, tx.cfg)
    ELSE <<SourceLine(tx.legs[1].sequence, "0.5*", tx.cfg)>>
            \o TxLegPassive(tx.legs[1].sequence, tx.cfg)
            \o <<SourceLine(tx.legs[2].sequence, "0.5*", tx.cfg)>>
            \o TxLegPassive(tx.legs[2].sequence, tx.cfg)

TxActive(tx) ==
    IF tx.kind = "single"
    THEN <<SourceLine(tx.legs[1].sequence, "", tx.cfg)>>
            \o TxLegPassive(tx.legs[1].sequence, tx.cfg)
    ELSE <<SourceLine(tx.legs[1].sequence, "0.5*", tx.cfg)>>
            \o TxLegPassive(tx.legs[1].sequence, tx.cfg)
            \o <<SourceLine(tx.legs[2].sequence, "-0.5*", tx.cfg)>>
            \o TxLegPassive(tx.legs[2].sequence, tx.cfg)

\* Tx.passive / Tx_diff.passive
TxPassive(tx) ==
    IF tx.kind = "single" THEN TxLegPassive(tx.legs[1].sequence, tx.cfg)
    ELSE TxLegPassive(tx.legs[1].sequence, tx.cfg) \o TxLegPassive(tx.legs[2].sequence, tx.cfg)

\* Tx.get_netlist(active) / Tx_diff.get_netlist(active)
TxNetlist(tx, active) == IF active THEN TxActive(tx) ELSE TxPassive(tx)

RxLeg(pid, cfg) ==
    <<ElementLine("R", pid, "net", "0", cfg.res_rx),
      ElementLine("C", pid, "net", "0", cfg.cap_rx)>>

\* Rx.netlist / Rx_diff.netlist
RxNetlist(rx) ==
    IF rx.kind = "single" THEN RxLeg(rx.legs[1].sequence, rx.cfg)
    ELSE RxLeg(rx.legs[1].sequence, rx.cfg) \o RxLeg(rx.legs[2].sequence, rx.cfg)

RECURSIVE Flatten(_)
Flatten(blocks) == IF blocks = <<>> THEN <<>> ELSE Head(blocks) \o Flatten(Tail(blocks))

\* prune_result.tx_lookup.get(key): the last TX object of the trimmed list with the key
TxLookup(objs, key) == MapGet(objs, key[1], key[2])

\* _build_netlist: the model line and the S1 line, then the TX and the RX lines;
\* active_tx and prune_result are kept with the text to tell which scenario it is
_build_netlist(prune_result, active_tx) ==
    LET trimmed_active_tx == TxLookup(prune_result.txs, _tx_to_key(active_tx))
    IN  [model |-> prune_result.touchstone_path,
         nets |-> [i \in 1..Len(prune_result.trimmed_metadata) |->
                      prune_result.trimmed_metadata[i].sequence],
         lines |-> Flatten([i \in 1..Len(prune_result.txs) |->
                              TxNetlist(prune_result.txs[i],
                                        prune_result.txs[i] = trimmed_active_tx)])
                   \o Flatten([i \in 1..Len(prune_result.rxs) |->
                                 RxNetlist(prune_result.rxs[i])]),
         active_tx |-> active_tx,
         prune_result |-> prune_result]

\* ------------------------------------------------------------------ metrics
\* Sample times are whole picoseconds, in 0..MaxTime or 1 and WideTime, and voltages
\* whole volts, so every integral is a multiple of 1/EnergyScale; energies are kept
\* in that unit. Times are floats of MantissaBits significant bits: the sums and
\* differences of times are rounded to nearest, ties to even; every whole number up
\* to 2^MantissaBits is exact, and WideTime - 1 is the first difference that is not.
MaxTime == 4
MaxSamples == 3
MantissaBits == 3
WideTime == 2 ^ (MantissaBits + 1)

\* the spacing of the floats around x >= 0
RECURSIVE Ulp(_)
Ulp(x) == IF x < 2 ^ MantissaBits THEN 1 ELSE 2 * Ulp(x \div 2)

\* the float nearest to the whole number x
Fl(x) ==
    IF x < 0
    THEN -(LET u == Ulp(-x)
               q == (-x) \div u
               r == (-x) % u
           IN  IF 2 * r < u \/ (2 * r = u /\ q % 2 = 0) THEN q * u ELSE (q + 1) * u)
    ELSE LET u == Ulp(x)
             q == x \div u
             r == x % u
         IN  IF 2 * r < u \/ (2 * r = u /\ q % 2 = 0) THEN q * u ELSE (q + 1) * u

RECURSIVE Gcd(_, _)
Gcd(a, b) == IF b = 0 THEN a ELSE Gcd(b, a % b)

RECURSIVE LcmUpTo(_)
LcmUpTo(n) == IF n <= 1 THEN 1 ELSE (LcmUpTo(n - 1) * n) \div Gcd(LcmUpTo(n - 1), n)

EnergyScale ==
    2 * ((LcmUpTo(MaxTime) * (WideTime - 1)) \div Gcd(LcmUpTo(MaxTime), WideTime - 1))

Abs(x) == IF x < 0 THEN -x ELSE x

AbsSeq(y) == [i \in 1..Len(y) |-> Abs(y[i])]

\* (y[i] + y[i+1]) * 0.5 * (x[i+1] - x[i]), i counted from 1
Trapezoid(x, y, i) == (EnergyScale \div 2) * (y[i] + y[i + 1]) * (x[i + 1] - x[i])

\* the sum of the first k trapezoids: np.cumsum(...)[k - 1], and 0.0 for k = 0
RECURSIVE CumTrapezoid(_, _, _)
CumTrapezoid(x, y, k) ==
    IF k = 0 THEN 0 ELSE CumTrapezoid(x, y, k - 1) + Trapezoid(x, y, k)

\* raises IndexError when y_list is shorter than x_list
integrate_nonuniform(x_list, y_list) ==
    IF Len(x_list) > 1 /\ Len(y_list) < Len(x_list) THEN [error |-> "IndexError"]
    ELSE [value |-> CumTrapezoid(x_list, y_list, IF x_list = <<>> THEN 0 ELSE Len(x_list) - 1)]

\* np.argsort(t) and t[order], v[order]: insertion of each sample behind the samples
\* that are not later than it
RECURSIVE InsertByTime(_, _)
InsertByTime(sorted, sample) ==
    IF sorted = <<>> THEN <<sample>>
    ELSE IF sorted[Len(sorted)].t <= sample.t THEN Append(sorted, sample)
    ELSE Append(InsertByTime(SubSeq(sorted, 1, Len(sorted) - 1), sample), sorted[Len(sorted)])

RECURSIVE SortByTime(_)
SortByTime(samples) ==
    IF samples = <<>> THEN <<>>
    ELSE InsertByTime(SortByTime(SubSeq(samples, 1, Len(samples) - 1)), samples[Len(samples)])

\* the index j the while loop stops at: the last sample not after t_end
WindowEnd(t, t_end) == SetMax({j \in 1..Len(t) : t[j] <= t_end})

\* the interpolated part of the window past sample j, of v or of |v|
PartialWindow(t, v, j, t_end, absolute) ==
    IF j + 1 <= Len(t) /\ t[j] < t_end /\ t_end < t[j + 1]
    THEN LET d == t_end - t[j]
             dt == t[j + 1] - t[j]
             \* v_end * dt
             v_end_dt == v[j] * dt + (v[j + 1] - v[j]) * d
         IN  IF absolute
             THEN ((EnergyScale \div (2 * dt)) * (Abs(v[j]) * dt + Abs(v_end_dt))) * d
             ELSE ((EnergyScale \div (2 * dt)) * (v[j] * dt + v_end_dt)) * d
    ELSE 0

\* integ of the window starting at sample i
WindowIntegral(t, v, i, ui) ==
    LET j == WindowEnd(t, Fl(t[i] + ui))
    IN  CumTrapezoid(t, v, j - 1) - CumTrapezoid(t, v, i - 1)
            + PartialWindow(t, v, j, Fl(t[i] + ui), FALSE)

\* the first window whose integral is the largest (integ > sig_max is strict)
BestWindow(t, v, last_i, ui) ==
    CHOOSE i \in 1..last_i :
        /\ \A k \in 1..last_i : WindowIntegral(t, v, k, ui) <= WindowIntegral(t, v, i, ui)
        /\ \A k \in 1..(i - 1) : WindowIntegral(t, v, k, ui) < WindowIntegral(t, v, i, ui)

get_sig_isi(time_list, voltage_list, unit_interval) ==
    IF Len(time_list) # Len(voltage_list) THEN [error |-> "ValueError"]
    ELSE IF unit_interval <= 0 THEN [error |-> "ValueError"]
    ELSE IF time_list = <<>> THEN [error |-> "IndexError"]
    ELSE LET samples == SortByTime([i \in 1..Len(time_list) |->
                                       [t |-> time_list[i], v |-> voltage_list[i]]])
             n == Len(samples)
             t == [i \in 1..n |-> samples[i].t]
             v == [i \in 1..n |-> samples[i].v]
             \* np.searchsorted(t, t[-1] - unit_interval, side="right"), last_i + 1
             last_i == Cardinality({k \in 1..n : t[k] <= Fl(t[n] - unit_interval)})
         IN  IF Fl(t[n] - t[1]) < unit_interval THEN [error |-> "ValueError"]
             ELSE IF last_i = 0 THEN [error |-> "ValueError"]
             ELSE LET best_i == BestWindow(t, v, last_i, unit_interval)
                      best_j == WindowEnd(t, Fl(t[best_i] + unit_interval))
                      total_abs == CumTrapezoid(t, AbsSeq(v), n - 1)
                      integ_abs == CumTrapezoid(t, AbsSeq(v), best_j - 1)
                                     - CumTrapezoid(t, AbsSeq(v), best_i - 1)
                                     + PartialWindow(t, v, best_j,
                                                     Fl(t[best_i] + unit_interval), TRUE)
                  IN  [sig |-> WindowIntegral(t, v, best_i, unit_interval),
                       isi |-> total_abs - integ_abs]

\* ------------------------------------------------------------------ the sweep
MaxRuns == 2

\* what the driver can return for one probe: (time samples in ps, voltage samples)
\* a flat line, a pulse with undershoot, a capture shorter than the unit interval
DriverWaveforms ==
    <<[time |-> <<0, 1, 2>>, voltage |-> <<0, 0, 0>>],
      [time |-> <<0, 2, 4>>, voltage |-> <<-1, 2, 1>>],
      [time |-> <<0, 1>>, voltage |-> <<1, 1>>]>>

\* the waveforms of a capture that spans the unit interval
FullCaptures == {1, 2}

\* the sequences of the ports that belong to an RX group of the engine
RxLegSequences == UNION {LegSequences(rxs[j]) : j \in 1..Len(rxs)}

\* for every port of the full list, the waveform the driver returns for its probe in
\* one scenario (0: no probe of that port is returned); only probes of RX legs are read
DriverChoices ==
    {f \in [1..Len(port_metadata) -> 0..Len(DriverWaveforms)] :
        \A q \in 1..Len(port_metadata) : q \notin RxLegSequences => f[q] = 0}

NoProbes == [q \in 1..Len(port_metadata) |-> 0]

\* Design.run(netlist): {number of net_<n> -> (x, y)} over the nets of the trimmed list
DriverResult(prune_result, choice) ==
    [k \in 1..Len(prune_result.kept_sequences) |->
        IF choice[prune_result.kept_sequences[k]] = 0 THEN NoneRec
        ELSE DriverWaveforms[choice[prune_result.kept_sequences[k]]]]

\* self._rx_lookup.get(key): the position in self.rxs of the last RX object with the
\* key, 0 for None
RxLookupIndex(key) ==
    IF \E j \in 1..Len(rxs) : _rx_to_key(rxs[j]) = key
    THEN SetMax({j \in 1..Len(rxs) : _rx_to_key(rxs[j]) = key})
    ELSE 0

\* d[key] = value on a dict kept in insertion order
DictSet(d, entry) ==
    IF \E i \in 1..Len(d) : d[i].tx = entry.tx
    THEN [d EXCEPT ![CHOOSE i \in 1..Len(d) : d[i].tx = entry.tx] = entry]
    ELSE Append(d, entry)

Min(a, b) == IF a <= b THEN a ELSE b

\* [vpos - vneg for vpos, vneg in zip(waveform_pos, waveform_neg)]
ZipDifference(waveform_pos, waveform_neg) ==
    [i \in 1..Min(Len(waveform_pos), Len(waveform_neg)) |-> waveform_pos[i] - waveform_neg[i]]

\* the body of the loop of _store_waveforms for one RX object of the trimmed list;
\* run_id tells the run call that stores
StoreOne(wf, rx, result, base_tx, run_id) ==
    LET j == RxLookupIndex(_rx_to_key(rx))
        pid_pos == rx.legs[1].sequence
        pid_neg == rx.legs[Len(rx.legs)].sequence
    IN  IF j = 0 THEN wf
        ELSE IF rx.kind = "single"
        THEN IF result[pid_pos] # NoneRec
             THEN [wf EXCEPT ![j] = DictSet(@, [tx |-> base_tx, time |-> result[pid_pos].time,
                                                voltage |-> result[pid_pos].voltage,
                                                run |-> run_id])]
             ELSE wf
        ELSE IF result[pid_pos] # NoneRec /\ result[pid_neg] # NoneRec
             THEN [wf EXCEPT ![j] = DictSet(@, [tx |-> base_tx, time |-> result[pid_pos].time,
                                                voltage |-> ZipDifference(result[pid_pos].voltage,
                                                                          result[pid_neg].voltage),
                                                run |-> run_id])]
             ELSE wf

RECURSIVE StoreFrom(_, _, _, _, _, _)
StoreFrom(wf, trimmed_rxs, k, result, base_tx, run_id) ==
    IF k > Len(trimmed_rxs) THEN wf
    ELSE StoreFrom(StoreOne(wf, trimmed_rxs[k], result, base_tx, run_id),
                   trimmed_rxs, k + 1, result, base_tx, run_id)

_store_waveforms(wf, prune_result, result, base_tx, run_id) ==
    StoreFrom(wf, prune_result.rxs, 1, result, base_tx, run_id)

\* the loop of run from TX number i on: st holds the cache, the waveforms, the
\* netlists built and the warning flag so far; the driver call of scenario fail_at
\* raises (0: none does)
RECURSIVE RunLoop(_, _, _, _, _)

\* netlist_path = self._build_netlist(prune_result, tx); result = circuit.run(...);
\* self._store_waveforms(prune_result, result, tx)
Scenario(i, st, fail_at, choices, run_id, prune_result, cache, warns) ==
    IF fail_at = i
    THEN [cache |-> cache, wf |-> st.wf,
          netlists |-> Append(st.netlists, _build_netlist(prune_result, txs[i])),
          warned |-> (st.warned \/ warns),
          warnings |-> IF warns THEN st.warnings + 1 ELSE st.warnings,
          raised |-> TRUE]
    ELSE RunLoop(i + 1,
                 [cache |-> cache,
                  wf |-> _store_waveforms(st.wf, prune_result,
                                          DriverResult(prune_result, choices[i]),
                                          txs[i], run_id),
                  netlists |-> Append(st.netlists, _build_netlist(prune_result, txs[i])),
                  warned |-> (st.warned \/ warns),
                  warnings |-> IF warns THEN st.warnings + 1 ELSE st.warnings,
                  raised |-> FALSE],
                 fail_at, choices, run_id)

\* prune_result = self._ensure_prune_result(tx), cache being the cache after it
Ensured(i, st, fail_at, choices, run_id, cache) ==
    Scenario(i, st, fail_at, choices, run_id, cache[_tx_to_key(txs[i])], cache,
             /\ _tx_to_key(txs[i]) \notin DOMAIN st.cache
             /\ Warns(threshold_db, st.warned))

RunLoop(i, st, fail_at, choices, run_id) ==
    IF i > Len(txs) THEN st
    ELSE Ensured(i, st, fail_at, choices, run_id,
                 EnsureAll(<<txs[i]>>, st.cache, threshold_db))

\* the engine after the loop of run, or after the driver call that raised
Swept(st) ==
    /\ prune_cache' = st.cache
    /\ prune_warning_emitted' = st.warned
    /\ warnings' = st.warnings
    /\ waveforms' = st.wf
    /\ netlists' = st.netlists
    /\ last_op' = IF st.raised THEN "run:driver raised" ELSE "run"

\* CCT.run: the precondition, the Design session (session_ok: its constructor
\* returns), the clearing of the waveforms, then one scenario per TX object
run(session_ok, fail_at, choices) ==
    /\ phase = "ready"
    /\ run_count < MaxRuns
    /\ run_count' = run_count + 1
    /\ IF txs = <<>> \/ rxs = <<>>
       THEN /\ last_op' = "run:RuntimeError"
            /\ UNCHANGED <<prune_cache, prune_warning_emitted, warnings, waveforms, netlists>>
       ELSE IF ~session_ok
       THEN /\ last_op' = "run:Design raised"
            /\ UNCHANGED <<prune_cache, prune_warning_emitted, warnings, waveforms, netlists>>
       ELSE Swept(RunLoop(1, [cache |-> prune_cache,
                              wf |-> [j \in 1..Len(rxs) |-> <<>>],
                              netlists |-> <<>>, warned |-> prune_warning_emitted,
                              warnings |-> warnings, raised |-> FALSE],
                          fail_at, choices, run_count + 1))
    /\ UNCHANGED <<phase, raw, port_metadata, renormalized, network, threshold_db, tx_config,
                   rx_config, txs, rxs, tx_gen, prerun_summaries, classified,
                   report, sig_in, sig_out>>

\* float(self.ui.replace('ps', '')) for the unit intervals the configurations use
UiOf(ui) == CASE ui = "133ps" -> 133 [] ui = "2ps" -> 2 [] ui = "3ps" -> 3

\* f'{x:.3f}' of an energy, in thousandths
Format3(x) == (2000 * x + EnergyScale) \div (2 * EnergyScale)

\* the loop over rx.waveforms.items() in calculate, from entry i on
RECURSIVE Accumulate(_, _, _, _, _)

\* sig, isi = get_sig_isi(time, voltage, ui), r being what the call yields
AccumulatePrimary(wf, i, primary_tx, ui, acc, r) ==
    IF "error" \in DOMAIN r THEN [error |-> r.error]
    ELSE Accumulate(wf, i + 1, primary_tx, ui, [acc EXCEPT !.sig = r.sig, !.isi = r.isi])

AccumulateCrosstalkDropped(wf, i, primary_tx, ui, acc, r) ==
    IF "error" \in DOMAIN r THEN [error |-> r.error]
    ELSE Accumulate(wf, i + 1, primary_tx, ui, acc)

\* xtalk += integrate_nonuniform(time, [abs(v) for v in voltage]), r being what the
\* call yields
AccumulateCrosstalk(wf, i, primary_tx, ui, acc, r) ==
    IF "error" \in DOMAIN r THEN [error |-> r.error]
    ELSE Accumulate(wf, i + 1, primary_tx, ui, [acc EXCEPT !.xtalk = @ + r.value])

Accumulate(wf, i, primary_tx, ui, acc) ==
    IF i > Len(wf) THEN acc
    ELSE IF wf[i].tx = primary_tx
    THEN AccumulatePrimary(wf, i, primary_tx, ui, acc,
                           get_sig_isi(wf[i].time, wf[i].voltage, ui))
    ELSE AccumulateCrosstalk(wf, i, primary_tx, ui, acc,
                             integrate_nonuniform(wf[i].time, AbsSeq(wf[i].voltage)))

ReportedWithoutPrimaryWaveform(j) ==
    /\ waveforms[j] # <<>>
    /\ rxs[j].expected_tx # NoneRec

\* does calculate reach the metrics of RX number j
Reported(j) ==
    /\ waveforms[j] # <<>>
    /\ rxs[j].expected_tx # NoneRec
    /\ \E i \in 1..Len(waveforms[j]) : waveforms[j][i].tx = rxs[j].expected_tx

PowerRatioNoZeroCheck(sig, denom) == [inf |-> FALSE, num |-> sig, den |-> denom]

\* sig / denom if denom else float('inf')
PowerRatio(sig, denom) ==
    IF denom # 0 THEN [inf |-> FALSE, num |-> sig, den |-> denom]
    ELSE [inf |-> TRUE, num |-> 0, den |-> 0]

\* pseudo_eye, denom, p_ratio and the formatted line of RX number j from the sums
RowOf(j, acc) ==
    IF "error" \in DOMAIN acc THEN acc
    ELSE [rx |-> j,
          tx_label |-> rxs[j].expected_tx.label,
          rx_label |-> rxs[j].label,
          sig |-> acc.sig, isi |-> acc.isi, xtalk |-> acc.xtalk,
          pseudo_eye |-> acc.sig - acc.isi - acc.xtalk,
          power_ratio |-> PowerRatio(acc.sig, acc.isi + acc.xtalk),
          text |-> [sig |-> Format3(acc.sig), isi |-> Format3(acc.isi),
                    xtalk |-> Format3(acc.xtalk),
                    pseudo_eye |-> Format3(acc.sig - acc.isi - acc.xtalk)]]

\* the report line of RX number j, or the error its metrics raise
ReportRow(j, ui) ==
    RowOf(j, Accumulate(waveforms[j], 1, rxs[j].expected_tx, ui,
                        [sig |-> 0, isi |-> 0, xtalk |-> 0]))

RECURSIVE ReportRows(_, _, _)

\* rows.append(...) unless the metrics raised
AppendRow(j, ui, rows, row) ==
    IF "error" \in DOMAIN row THEN row
    ELSE ReportRows(j + 1, ui, Append(rows, row))

\* the loop over self.rxs in calculate, from RX number j on
ReportRows(j, ui, rows) ==
    IF j > Len(rxs) THEN [rows |-> rows]
    ELSE IF ~Reported(j) THEN ReportRows(j + 1, ui, rows)
    ELSE AppendRow(j, ui, rows, ReportRow(j, ui))

\* the file is written after the loop, so an error leaves the earlier report
WriteReport(result) ==
    IF "error" \in DOMAIN result
    THEN /\ last_op' = IF result.error = "ValueError" THEN "calculate:ValueError"
                       ELSE "calculate:IndexError"
         /\ UNCHANGED report
    ELSE /\ last_op' = "calculate"
         /\ report' = result

\* CCT.calculate: self.ui exists once set_txs has run
calculate ==
    /\ phase = "ready"
    /\ IF tx_config = NoneRec
       THEN /\ last_op' = "calculate:AttributeError"
            /\ UNCHANGED report
       ELSE WriteReport(ReportRows(1, UiOf(tx_config.ui), <<>>))
    /\ UNCHANGED <<phase, raw, port_metadata, renormalized, network, threshold_db, tx_config,
                   rx_config, txs, rxs, tx_gen, prune_cache, prerun_summaries,
                   prune_warning_emitted, warnings, classified,
                   waveforms, netlists, run_count, sig_in, sig_out>>

\* ------------------------------------------------------------------ the engine session
SweepThresholds == {NoneRec, Db(20)}

SweepTxConfig == [vhigh |-> "0.8V", t_rise |-> "30ps", ui |-> "2ps",
                  res_tx |-> "40ohm", cap_tx |-> "1pF"]

SweepRxConfig == [res_rx |-> "30ohm", cap_rx |-> "1.8pF"]

SweepPort(role, net, net_type) ==
    RawItem([component |-> IF role = "controller" THEN "U1" ELSE "U2",
             component_role |-> role, net |-> net, net_type |-> net_type], <<>>)

\* two single-ended channels that share no net
TwoChannels ==
    <<SweepPort("controller", "A", "single"), SweepPort("controller", "B", "single"),
      SweepPort("dram", "A", "single"), SweepPort("dram", "B", "single")>>

\* port lists: an aggressor beside a channel; two controllers on one net; a
\* differential channel; an RX group with no TX on its net beside a channel; no TX
\* group; no RX group
SweepInputs ==
    {<<SweepPort("controller", "A", "single"), SweepPort("controller", "B", "single"),
       SweepPort("dram", "A", "single")>>,
     <<SweepPort("controller", "A", "single"), SweepPort("controller", "A", "single"),
       SweepPort("dram", "A", "single")>>,
     <<SweepPort("controller", "D", "differential"), SweepPort("controller", "D", "differential"),
       SweepPort("dram", "D", "differential"), SweepPort("dram", "D", "differential")>>,
     <<SweepPort("controller", "A", "single"), SweepPort("dram", "A", "single"),
       SweepPort("dram", "B", "single")>>,
     <<SweepPort("dram", "A", "single")>>,
     <<SweepPort("controller", "A", "single")>>}

\* the calls of an engine's life in any order, with a driver that returns no probe
InitSession ==
    /\ phase = "new"
    /\ raw \in SweepInputs \cup {TwoChannels}
    /\ EngineIdle
    /\ SweepIdle

NewSessionEngine ==
    \E t \in SweepThresholds, n \in FixedNetworkChoices(load_port_metadata(raw).entries) :
        Construct(t, n)
SessionSetThreshold == \E t \in SweepThresholds : set_threshold(t)
SessionSetTxs == set_txs(SweepTxConfig)
SessionSetRxs == set_rxs(SweepRxConfig)
SessionPreRun == \E t \in SweepThresholds : pre_run(t)
RunUnprobed ==
    \E session_ok \in BOOLEAN, fail_at \in 0..Len(txs) :
        /\ ~session_ok => fail_at = 0
        /\ run(session_ok, fail_at, [i \in 1..Len(txs) |-> NoProbes])

NextSession ==
    \/ NewSessionEngine \/ SessionSetThreshold \/ SessionSetTxs \/ SessionSetRxs
    \/ SessionPreRun \/ EnsurePruneResult \/ RunUnprobed

SpecSession == InitSession /\ [][NextSession]_vars

\* ------------------------------------------------------------------ the sweep
\* an engine constructed and configured as __main__ does it, then run and calculate
\* with a driver that returns any of the waveforms, or nothing, for every RX probe
Configured(items, threshold, loaded_network) ==
    /\ phase = "ready"
    /\ raw = <<>>
    /\ port_metadata = load_port_metadata(items).entries
    /\ renormalized = NoneRec
    /\ network = loaded_network
    /\ threshold_db = threshold
    /\ tx_config = SweepTxConfig
    /\ rx_config = SweepRxConfig
    /\ tx_gen = 1
    /\ txs = _create_tx_objects(tx_single_entries, tx_diff_entries, SweepTxConfig, 1)
    /\ rxs = _create_rx_objects(rx_single_entries, rx_diff_entries, SweepRxConfig, txs)
    /\ prune_cache = EmptyMapping /\ prerun_summaries = <<>>
    /\ prune_warning_emitted = FALSE /\ warnings = 0
    /\ classified = NoneRec /\ last_op = "set_rxs"
    /\ waveforms = [j \in 1..Len(rxs) |-> <<>>]
    /\ netlists = <<>> /\ run_count = 0
    /\ report = NoneRec /\ sig_in = NoneRec /\ sig_out = NoneRec

InitSweep ==
    \E items \in SweepInputs, t \in SweepThresholds :
        \E n \in FixedNetworkChoices(load_port_metadata(items).entries) :
            Configured(items, t, n)

Run ==
    \E session_ok \in BOOLEAN, fail_at \in 0..Len(txs), choices \in [1..Len(txs) -> DriverChoices] :
        /\ \A i \in 1..Len(txs) : (fail_at # 0 /\ i >= fail_at) => choices[i] = NoProbes
        /\ ~session_ok => (fail_at = 0 /\ \A i \in 1..Len(txs) : choices[i] = NoProbes)
        /\ run(session_ok, fail_at, choices)
Calculate == calculate

NextSweep == Run \/ Calculate

SpecSweep == InitSweep /\ [][NextSweep]_vars

\* ------------------------------------------------------------------ end to end
\* __main__ on the two-channel metadata with no threshold argument, with a driver
\* that returns a full capture for every RX probe in every scenario
InitEndToEnd ==
    /\ phase = "new"
    /\ raw = TwoChannels
    /\ EngineIdle
    /\ SweepIdle

NewEndToEndEngine ==
    \E n \in FixedNetworkChoices(load_port_metadata(raw).entries) : Construct(NoneRec, n)
RunAllProbes ==
    \E choices \in [1..Len(txs) -> DriverChoices] :
        /\ \A i \in 1..Len(txs), q \in RxLegSequences : choices[i][q] \in FullCaptures
        /\ run(TRUE, 0, choices)

NextEndToEnd ==
    \/ NewEndToEndEngine \/ SessionSetTxs \/ SessionSetRxs \/ RunAllProbes \/ Calculate

SpecEndToEnd == InitEndToEnd /\ [][NextEndToEnd]_vars

\* ------------------------------------------------------------------ trimming
\* engines over port lists with declared polarities and ports of no role, pruned
\* and run with a driver that returns no probe
MaxTrimPorts == 4

TrimPolarities == {None, "POS"}

TrimItems ==
    {RawItem(k, <<>>) :
        k \in {[component |-> "U1", component_role |-> "controller", net |-> "A",
                net_type |-> "single"],
               [component |-> "U2", component_role |-> "dram", net |-> "A",
                net_type |-> "single"],
               [component |-> "U3", component_role |-> None, net |-> "A",
                net_type |-> "single"]}}
    \cup {[RawItem([component |-> c.component, component_role |-> c.role, net |-> "D",
                    net_type |-> "differential"], <<>>) EXCEPT !.polarity = q] :
             c \in {[component |-> "U1", role |-> "controller"],
                    [component |-> "U2", role |-> "dram"]},
             q \in TrimPolarities}

TrimInputs == SeqsUpTo(TrimItems, 1, MaxTrimPorts)

TrimThresholds == {NoneRec, Db(10)}

InitTrim ==
    /\ phase = "new"
    /\ raw \in TrimInputs
    /\ EngineIdle
    /\ SweepIdle

NewTrimEngine ==
    \E t \in TrimThresholds, n \in FixedNetworkChoices(load_port_metadata(raw).entries) :
        Construct(t, n)

NextTrim == NewTrimEngine \/ SessionSetTxs \/ SessionSetRxs \/ RunUnprobed

SpecTrim == InitTrim /\ [][NextTrim]_vars

\* ------------------------------------------------------------------ get_sig_isi as a function
Volts == {-1, 0, 2}

Intervals == {-1, 0, 1, 2, 3}

IsInjective(f) == \A i, j \in DOMAIN f : f[i] = f[j] => i = j

\* sample times in any order, no two equal
TimeLists == {f \in SeqsUpTo(0..MaxTime, 0, MaxSamples) : IsInjective(f)}

\* captures whose span is not a float, with the unit intervals next to the span
WideTimeLists == {<<1, WideTime>>, <<WideTime, 1>>}

WideIntervals == {1, Fl(WideTime - 2), Fl(WideTime - 1)}

SigInputs ==
    {[time_list |-> f, voltage_list |-> g, unit_interval |-> u] :
        f \in TimeLists, g \in SeqsUpTo(Volts, 0, MaxSamples), u \in Intervals}
    \cup
    {[time_list |-> f, voltage_list |-> g, unit_interval |-> u] :
        f \in WideTimeLists, g \in SeqsUpTo(Volts, 2, 2), u \in WideIntervals}

InitSig ==
    /\ phase = "function"
    /\ raw = <<>>
    /\ EngineIdle
    /\ waveforms = <<>> /\ netlists = <<>> /\ run_count = 0 /\ report = NoneRec
    /\ sig_in \in SigInputs
    /\ sig_out = NoneRec

GetSigIsi ==
    /\ phase = "function"
    /\ sig_out = NoneRec
    /\ sig_out' = get_sig_isi(sig_in.time_list, sig_in.voltage_list, sig_in.unit_interval)
    /\ last_op' = "get_sig_isi"
    /\ UNCHANGED <<phase, raw, port_metadata, renormalized, network, threshold_db, tx_config,
                   rx_config, txs, rxs, tx_gen, prune_cache, prerun_summaries,
                   prune_warning_emitted, warnings, classified,
                   waveforms, netlists, run_count, report, sig_in>>

NextSig == GetSigIsi

SpecSig == InitSig /\ [][NextSig]_vars

\* ------------------------------------------------------------------ properties
CacheEntries == {prune_cache[k] : k \in DOMAIN prune_cache}

Kept(entry) == Range(entry.kept_sequences)

AllSequences == 1..Len(port_metadata)

HasRole(role) == {q \in AllSequences : port_metadata[q].component_role = role}

\* C1: every prune result keeps the sequence of every port whose role is controller,
\* whether or not the port belongs to a TX group.
C1_ControllerPortsKept ==
    \A e \in CacheEntries : HasRole("controller") \subseteq Kept(e)

\* C2 as stated: every cache entry was computed under the current threshold, TX
\* config and RX config, and set_threshold, set_txs, set_rxs and pre_run with a
\* threshold argument each leave the cache empty.
EntriesAreCurrent ==
    \A e \in CacheEntries :
        /\ e.under.threshold_db = threshold_db
        /\ e.under.tx_config = tx_config
        /\ e.under.rx_config = rx_config
        /\ e.stats.threshold_db = threshold_db
        /\ \A i \in 1..Len(e.txs) : e.txs[i].cfg = tx_config
        /\ \A i \in 1..Len(e.rxs) : e.rxs[i].cfg = rx_config

C2_Original ==
    /\ EntriesAreCurrent
    /\ last_op \in {"set_threshold", "set_txs", "set_rxs", "pre_run(threshold)",
                    "pre_run(threshold):RuntimeError"}
          => prune_cache = EmptyMapping

\* C2: every cache entry was computed under the current threshold, TX config and RX
\* config; set_threshold, set_txs and set_rxs leave the cache empty; pre_run with a
\* threshold argument empties the cache and, unless it raises, refills it with one
\* entry per TX key of the current TX list, each computed under the new threshold.
C2_CacheIsCurrent ==
    /\ EntriesAreCurrent
    /\ last_op \in {"set_threshold", "set_txs", "set_rxs", "pre_run(threshold):RuntimeError"}
          => prune_cache = EmptyMapping
    /\ last_op = "pre_run(threshold)"
          => DOMAIN prune_cache = {_tx_to_key(txs[i]) : i \in 1..Len(txs)}

C2_Witness ==
    /\ last_op = "pre_run(threshold)"
    /\ tx_gen = 2
    /\ threshold_db = Db(20)
    /\ Cardinality(DOMAIN prune_cache) = 2

FiniteThresholds == PruneThresholds \ {NoneRec}

\* C3: for the same metadata, network and TX group, the kept set at threshold A
\* contains the kept set at every threshold B >= A.
C3_Monotone ==
    \A e \in CacheEntries :
        e.under.threshold_db # NoneRec =>
            \A B \in FiniteThresholds :
                DbGeq(B, e.under.threshold_db) => KeptSequences(e.under.tx, B) \subseteq Kept(e)

C3_Witness ==
    \E e \in CacheEntries :
        /\ e.under.threshold_db = Db(0)
        /\ network # NoneRec
        /\ KeptSequences(e.under.tx, Db(10)) # Kept(e)
        /\ KeptSequences(e.under.tx, Db(30)) # KeptSequences(e.under.tx, Db(10))

\* C4: with the threshold unset or minus infinity, every prune result keeps all
\* port sequences 1..N.
C4_KeepsAllWhenUnsetOrNegInf ==
    \A e \in CacheEntries :
        e.under.threshold_db \in {NoneRec, NegInf} => Kept(e) = AllSequences

\* the maximum peak magnitude, in dB, over the whole network
NetworkMaxDb ==
    PeakDb(SetMax({0} \cup {network.s[f][r][t] :
                              f \in 1..Len(network.s), r \in AllSequences, t \in AllSequences}))

TxGroupSequences == UNION {LegSequences(txs[i]) : i \in 1..Len(txs)}

\* the ports of the RX groups whose expected TX is this TX object
PartnerSequences(tx) ==
    UNION {LegSequences(rxs[i]) : i \in {j \in 1..Len(rxs) : rxs[j].expected_tx = tx}}

MinimalKept(e) == Kept(e) = TxGroupSequences \cup PartnerSequences(e.under.tx)

Perms(n) == {f \in [1..n -> 1..n] : \A i, j \in 1..n : f[i] = f[j] => i = j}

DeclaredSequence(items, k) == IF items[k].sequence = <<>> THEN k ELSE items[k].sequence[1]

SamePort(a, b) ==
    /\ a.component = b.component /\ a.component_role = b.component_role
    /\ a.net = b.net /\ a.net_type = b.net_type
    /\ a.pair = b.pair /\ a.polarity = b.polarity

IsDense(entries) == \A i \in 1..Len(entries) : entries[i].sequence = i

\* the loaded list is the raw list in ascending order of the declared sequences
LoadedInDeclaredOrder(items, entries) ==
    /\ Len(entries) = Len(items)
    /\ \E f \in Perms(Len(items)) :
          /\ \A i \in 1..Len(items) : SamePort(entries[i], ParseEntry(items[f[i]], f[i]))
          /\ \A i, j \in 1..Len(items) :
                i < j => DeclaredSequence(items, f[i]) <= DeclaredSequence(items, f[j])

TrimmedInKeptOrder(e) ==
    /\ Len(e.trimmed_metadata) = Len(e.kept_sequences)
    /\ IsDense(e.trimmed_metadata)
    /\ \A i \in 1..Len(e.kept_sequences) :
          /\ e.kept_sequences[i] \in AllSequences
          /\ SamePort(e.trimmed_metadata[i], port_metadata[e.kept_sequences[i]])
    /\ \A i, j \in 1..Len(e.kept_sequences) :
          i < j => e.kept_sequences[i] < e.kept_sequences[j]

\* C6: after load_port_metadata, and in the trimmed list of every prune result, the
\* sequences are exactly 1..K in list order, assigned in ascending order of the
\* previous sequence numbers (the declared ones on load, the kept ones on trim).
C6_DenseSequences ==
    /\ [](phase = "ready" => IsDense(port_metadata) /\ \A e \in CacheEntries : TrimmedInKeptOrder(e))
    /\ [][(phase = "new" /\ phase' = "ready") => LoadedInDeclaredOrder(raw, port_metadata')]_vars

C6_Witness ==
    /\ phase = "ready"
    /\ Len(port_metadata) = 3
    /\ \E e \in CacheEntries : e.kept_sequences = <<1, 3>> /\ IsDense(e.trimmed_metadata)

\* C7: loading the output of the sort-renumber-rename rule again yields the same
\* sequence and the same name for every port, whatever the original names were.
C7_RenumberIdempotent ==
    renormalized # NoneRec =>
        /\ renormalized.ok
        /\ Len(renormalized.entries) = Len(port_metadata)
        /\ \A i \in 1..Len(port_metadata) :
              /\ renormalized.entries[i].sequence = port_metadata[i].sequence
              /\ renormalized.entries[i].name = port_metadata[i].name

\* C8: constructing the engine from an empty port list fails with the validation
\* error, leaves every engine field as it was, and no operation (classification,
\* prune computation, driver request) follows the failure.
C8_EmptyMetadataFails ==
    /\ [][(phase = "new" /\ raw = <<>>) =>
            /\ phase' = "failed"
            /\ last_op' = "__init__:ValueError"
            /\ UNCHANGED <<port_metadata, network, txs, rxs, prune_cache, prerun_summaries,
                           classified, warnings>>]_vars
    /\ [][phase # "failed"]_vars

C8_Witness ==
    /\ phase = "failed"
    /\ last_op = "__init__:ValueError"
    /\ port_metadata = <<>> /\ prune_cache = EmptyMapping /\ txs = <<>>

\* C9: after loading, every role is controller, dram or unknown and every net type
\* is single or differential.
C9_RolesAndNetTypesNormalized ==
    phase = "loaded" =>
        \A i \in 1..Len(port_metadata) :
            /\ port_metadata[i].component_role \in {"controller", "dram", "unknown"}
            /\ port_metadata[i].net_type \in {"single", "differential"}

PairId(entry) == IF entry.pair = None \/ entry.pair = "" THEN entry.net ELSE entry.pair

\* the differential entries of one role that share a component and a pair id
Bucket(role, entry) ==
    {q \in AllSequences :
        /\ port_metadata[q].component_role = role
        /\ port_metadata[q].net_type = "differential"
        /\ port_metadata[q].component = entry.component
        /\ PairId(port_metadata[q]) = PairId(entry)}

\* C10: every differential group is two distinct ports of the list, the first a
\* positive and the second a negative leg, of the same component and pair id (the
\* pair name, or the net when there is none), of the requested role and net type
\* differential; the entry of a one-leg bucket is in no group.
C10_DifferentialGroupsWellFormed ==
    classified # NoneRec =>
        /\ \A i \in 1..Len(classified.pairs) :
              LET p == classified.pairs[i]
              IN  /\ p.pos.sequence # p.neg.sequence
                  /\ p.pos.sequence \in AllSequences /\ port_metadata[p.pos.sequence] = p.pos
                  /\ p.neg.sequence \in AllSequences /\ port_metadata[p.neg.sequence] = p.neg
                  /\ p.pos.polarity \in {None, "positive"}
                  /\ p.neg.polarity \in {None, "negative"}
                  /\ p.pos.component = p.neg.component
                  /\ PairId(p.pos) = PairId(p.neg)
                  /\ p.pos.component_role = classified.role
                  /\ p.neg.component_role = classified.role
                  /\ p.pos.net_type = "differential" /\ p.neg.net_type = "differential"
        /\ \A q \in AllSequences :
              Cardinality(Bucket(classified.role, port_metadata[q])) = 1 =>
                  \A i \in 1..Len(classified.pairs) :
                      q \notin {classified.pairs[i].pos.sequence, classified.pairs[i].neg.sequence}

C10_Witness ==
    /\ classified # NoneRec
    /\ Len(classified.pairs) = 1
    /\ \E q \in AllSequences :
          /\ port_metadata[q].component_role = classified.role
          /\ port_metadata[q].net_type = "differential"
          /\ Cardinality(Bucket(classified.role, port_metadata[q])) = 1

\* the original sequences of the legs of an object of a trimmed list
OriginalLegs(prune_result, obj) ==
    {prune_result.kept_sequences[q] : q \in LegSequences(obj)}

\* the object's lines in the netlist hold a source
CarriesSource(netlist, obj) ==
    \E l \in 1..Len(netlist.lines) :
        /\ netlist.lines[l].elem = "V"
        /\ netlist.lines[l].pid \in LegSequences(obj)

\* C11: in every netlist built, a TX group of the trimmed topology carries a source
\* exactly when it is the TX group the scenario drives, so exactly one does.
C11_SourceOnDrivenTx ==
    \A n \in 1..Len(netlists) :
        \A i \in 1..Len(netlists[n].prune_result.txs) :
            CarriesSource(netlists[n], netlists[n].prune_result.txs[i])
                <=> OriginalLegs(netlists[n].prune_result, netlists[n].prune_result.txs[i])
                        = LegSequences(netlists[n].active_tx)

\* the value of a voltage text, in millivolts
MilliVolts(text) == CASE text = "0.8V" -> 800

\* the value of the amplitude expression of a source line, in millivolts
Amplitude(line) ==
    CASE line.factor = "" -> MilliVolts(line.vhigh)
      [] line.factor = "0.5*" -> MilliVolts(line.vhigh) \div 2
      [] line.factor = "-0.5*" -> -(MilliVolts(line.vhigh) \div 2)

\* the source lines of a netlist that drive the port with the given sequence
SourcesOf(netlist, pid) ==
    {l \in 1..Len(netlist.lines) :
        netlist.lines[l].elem = "V" /\ netlist.lines[l].pid = pid}

DrivenDifferential(netlist) ==
    {i \in 1..Len(netlist.prune_result.txs) :
        /\ netlist.prune_result.txs[i].kind = "diff"
        /\ CarriesSource(netlist, netlist.prune_result.txs[i])}

\* C12: a differential TX group in its active form has one source per leg, of
\* amplitude +Vhigh/2 on the positive leg and -Vhigh/2 on the negative leg with the
\* same rise time and unit interval: +0.4 V and -0.4 V for Vhigh = 0.8 V.
C12_DifferentialAmplitudes ==
    \A n \in 1..Len(netlists) :
        \A i \in DrivenDifferential(netlists[n]) :
            LET tx == netlists[n].prune_result.txs[i]
                pos == SourcesOf(netlists[n], tx.legs[1].sequence)
                neg == SourcesOf(netlists[n], tx.legs[2].sequence)
            IN  /\ Cardinality(pos) = 1 /\ Cardinality(neg) = 1
                /\ \A p \in pos, q \in neg :
                      /\ 2 * Amplitude(netlists[n].lines[p]) = MilliVolts(tx_config.vhigh)
                      /\ 2 * Amplitude(netlists[n].lines[q]) = -MilliVolts(tx_config.vhigh)
                      /\ tx_config.vhigh = "0.8V" =>
                            /\ Amplitude(netlists[n].lines[p]) = 400
                            /\ Amplitude(netlists[n].lines[q]) = -400
                      /\ netlists[n].lines[p].t_rise = netlists[n].lines[q].t_rise
                      /\ netlists[n].lines[p].ui = netlists[n].lines[q].ui
                      /\ netlists[n].lines[p].t_rise = tx_config.t_rise
                      /\ netlists[n].lines[p].ui = tx_config.ui

C12_Witness ==
    \E n \in 1..Len(netlists) :
        /\ DrivenDifferential(netlists[n]) # {}
        /\ tx_config.vhigh = "0.8V"

\* C13: with a threshold set and no network every prune result keeps every port
\* and the request for it does not fail, and an engine prints the warning at most
\* once: it has printed it once as soon as one such result has been computed.
C13_WarnsOnce ==
    /\ warnings <= 1
    /\ warnings = 1 <=> prune_warning_emitted
    /\ network # NoneRec => warnings = 0
    /\ (network = NoneRec /\ threshold_db # NoneRec) =>
          /\ \A e \in CacheEntries : Kept(e) = AllSequences
          /\ CacheEntries # {} => warnings = 1
          /\ (tx_config # NoneRec /\ rx_config # NoneRec) => last_op # "ensure:RuntimeError"

\* the warning was printed, the cache was emptied and is filled again
C13_Witness ==
    /\ network = NoneRec /\ threshold_db # NoneRec
    /\ warnings = 1
    /\ tx_gen = MaxTxGen
    /\ Cardinality(CacheEntries) = 2
    /\ run_count > 0

PreconditionErrors ==
    {"ensure:RuntimeError", "pre_run:RuntimeError", "pre_run(threshold):RuntimeError",
     "run:RuntimeError"}

PastPrecondition ==
    {"ensure", "ensure:cached", "pre_run", "pre_run(threshold)", "run",
     "run:Design raised", "run:driver raised"}

\* C14: a prune-result request, pre_run or run ends in the precondition error exactly
\* when the TX or the RX configuration has not been set, whatever groups the
\* metadata has.
C14_PreconditionError ==
    /\ last_op \in PreconditionErrors => (tx_config = NoneRec \/ rx_config = NoneRec)
    /\ last_op \in PastPrecondition => (tx_config # NoneRec /\ rx_config # NoneRec)

\* C15: after any sequence of run calls, failed ones included, every stored waveform
\* was stored by the most recent run call.
C15_WaveformsOfLastRun ==
    \A j \in 1..Len(waveforms) :
        \A i \in 1..Len(waveforms[j]) : waveforms[j][i].run = run_count

\* the stored waveform is the sample-by-sample difference of two leg captures over
\* the whole time base of the positive leg
IsLegDifference(w, pos, neg) ==
    /\ w.time = pos.time
    /\ \A i \in 1..Len(w.time) :
          /\ i <= Len(w.voltage) /\ i <= Len(pos.voltage) /\ i <= Len(neg.voltage)
          /\ w.voltage[i] = pos.voltage[i] - neg.voltage[i]

\* C16: every waveform stored for a differential RX group has as many voltages as
\* times, the times of the positive leg and at every index of that time base the
\* positive leg's voltage minus the negative leg's.
C16_DifferentialCombination ==
    \A j \in 1..Len(waveforms) :
        rxs[j].kind = "diff" =>
            \A i \in 1..Len(waveforms[j]) :
                /\ Len(waveforms[j][i].time) = Len(waveforms[j][i].voltage)
                /\ \E p, q \in 1..Len(DriverWaveforms) :
                      IsLegDifference(waveforms[j][i], DriverWaveforms[p], DriverWaveforms[q])

\* the RX groups with an expected TX group and a stored waveform for it
Eligible ==
    {j \in 1..Len(rxs) :
        /\ rxs[j].expected_tx # NoneRec
        /\ \E i \in 1..Len(waveforms[j]) : waveforms[j][i].tx = rxs[j].expected_tx}

\* the metrics of RX number j fail on one of its stored waveforms
MetricsRaise(j) ==
    \E i \in 1..Len(waveforms[j]) :
        IF waveforms[j][i].tx = rxs[j].expected_tx
        THEN "error" \in DOMAIN get_sig_isi(waveforms[j][i].time, waveforms[j][i].voltage,
                                            UiOf(tx_config.ui))
        ELSE "error" \in DOMAIN integrate_nonuniform(waveforms[j][i].time,
                                                     AbsSeq(waveforms[j][i].voltage))

\* the report has one row per eligible RX group, in the order of the RX list
RowsAreEligible ==
    /\ report # NoneRec
    /\ [k \in 1..Len(report.rows) |-> report.rows[k].rx] = SortedSeq(Eligible)
    /\ \A k \in 1..Len(report.rows) :
          /\ report.rows[k].rx_label = rxs[report.rows[k].rx].label
          /\ report.rows[k].tx_label = rxs[report.rows[k].rx].expected_tx.label

CalculateRaised == last_op \in {"calculate:ValueError", "calculate:IndexError"}

\* C17 as stated: every calculate returns without an error, with one row per
\* eligible RX group in RX list order and no row for any other RX group.
C17_Original ==
    (last_op = "calculate" \/ CalculateRaised) => (last_op = "calculate" /\ RowsAreEligible)

\* C17: a calculate either returns with one row per eligible RX group in RX list
\* order and no other row, or raises because the metrics of an eligible RX group
\* fail, and then leaves the report as it was; an RX group that is not eligible
\* makes no row and no error.
C17_RowsOrError ==
    /\ [](last_op = "calculate" => (RowsAreEligible /\ \A j \in Eligible : ~MetricsRaise(j)))
    /\ [](CalculateRaised => \E j \in Eligible : MetricsRaise(j))
    /\ [][(last_op' \in {"calculate:ValueError", "calculate:IndexError"}
             /\ waveforms' = waveforms /\ run_count' = run_count) => report' = report]_vars

\* a report with a row, made while an RX group with stored waveforms is not eligible
C17_Witness ==
    /\ last_op = "calculate"
    /\ report.rows # <<>>
    /\ \E j \in 1..Len(rxs) : waveforms[j] # <<>> /\ j \notin Eligible

\* the sum, over the stored waveforms of a TX group other than primary_tx from entry
\* i on, of the trapezoidal integral of |voltage| over the whole capture
RECURSIVE CrosstalkSum(_, _, _)
CrosstalkSum(wf, i, primary_tx) ==
    IF i > Len(wf) THEN 0
    ELSE CrosstalkSum(wf, i + 1, primary_tx)
         + (IF wf[i].tx = primary_tx THEN 0
            ELSE integrate_nonuniform(wf[i].time, AbsSeq(wf[i].voltage)).value)

\* the stored waveform of RX number j for its expected TX group
PrimaryWaveform(j) ==
    waveforms[j][CHOOSE i \in 1..Len(waveforms[j]) : waveforms[j][i].tx = rxs[j].expected_tx]

RowMetricsHold(row) ==
    LET primary == PrimaryWaveform(row.rx)
        energy == get_sig_isi(primary.time, primary.voltage, UiOf(tx_config.ui))
    IN  /\ row.sig = energy.sig /\ row.isi = energy.isi
        /\ row.xtalk = CrosstalkSum(waveforms[row.rx], 1, rxs[row.rx].expected_tx)
        /\ row.pseudo_eye = row.sig - row.isi - row.xtalk
        /\ row.isi + row.xtalk # 0 =>
              /\ ~row.power_ratio.inf
              /\ row.power_ratio.num = row.sig
              /\ row.power_ratio.den = row.isi + row.xtalk
        /\ row.isi + row.xtalk = 0 => row.power_ratio.inf

\* C18: in every row of a report just written, pseudo_eye = sig - isi - xtalk with
\* xtalk the sum of the integrals of |voltage| of the non-primary waveforms, and
\* power_ratio is sig / (isi + xtalk), or +infinity when isi + xtalk is zero.
C18_RowMetrics ==
    last_op = "calculate" =>
        \A k \in 1..Len(report.rows) : RowMetricsHold(report.rows[k])

\* a report with a row that has signal, inter-symbol interference and crosstalk
C18_Witness ==
    /\ last_op = "calculate"
    /\ \E k \in 1..Len(report.rows) :
          /\ report.rows[k].xtalk > 0 /\ report.rows[k].isi > 0 /\ report.rows[k].sig > 0
          /\ ~report.rows[k].power_ratio.inf

\* the two-channel engine configured by set_txs and then set_rxs, swept with every
\* probe returned in both scenarios, and its report just written
EndToEndDone ==
    /\ last_op = "calculate"
    /\ threshold_db = NoneRec
    /\ Len(txs) = 2 /\ Len(rxs) = 2
    /\ \A j \in 1..Len(rxs) : rxs[j].expected_tx = txs[j]
    /\ \A j \in 1..Len(rxs) : {waveforms[j][i].tx : i \in 1..Len(waveforms[j])} = Range(txs)

\* two rows: TX 1 with RX 3, TX 2 with RX 4
TwoChannelRows ==
    /\ Len(report.rows) = 2
    /\ \A k \in 1..2 :
          /\ report.rows[k].rx = k
          /\ report.rows[k].tx_label = prefix_port_name(<<"x">>, k)
          /\ report.rows[k].rx_label = prefix_port_name(<<"x">>, k + 2)

\* C19 as stated: the end-to-end run on the two-channel metadata reports two rows,
\* TX 1 with RX 3 and TX 2 with RX 4, each with xtalk printed as 0.000.
C19_Original ==
    EndToEndDone =>
        /\ TwoChannelRows
        /\ \A k \in 1..Len(report.rows) : report.rows[k].text.xtalk = 0

\* C19: the end-to-end run on the two-channel metadata reports two rows, TX 1 with
\* RX 3 and TX 2 with RX 4; the xtalk of a row is the integral of |voltage| of what
\* the RX captured while the other TX was driven, and its isi is the sliding
\* window's alone.
C19_EndToEnd ==
    EndToEndDone =>
        /\ TwoChannelRows
        /\ \A k \in 1..Len(report.rows) :
              /\ report.rows[k].xtalk = CrosstalkSum(waveforms[k], 1, txs[k])
              /\ report.rows[k].text.xtalk = Format3(CrosstalkSum(waveforms[k], 1, txs[k]))
              /\ report.rows[k].isi =
                    get_sig_isi(PrimaryWaveform(k).time, PrimaryWaveform(k).voltage,
                                UiOf(tx_config.ui)).isi

\* the report of a sweep in which each RX captured a pulse from its own TX and a
\* flat line from the other
C19_Witness ==
    /\ EndToEndDone
    /\ \A k \in 1..Len(report.rows) : report.rows[k].xtalk = 0 /\ report.rows[k].sig > 0

\* the cases in which C20 expects the domain error
SigDomainCase(in) ==
    \/ Len(in.time_list) # Len(in.voltage_list)
    \/ in.unit_interval <= 0
    \/ in.time_list = <<>>
    \/ /\ in.time_list # <<>>
       /\ SetMax(Range(in.time_list)) - (-SetMax({-x : x \in Range(in.time_list)}))
             < in.unit_interval

\* C20: get_sig_isi raises the domain error (ValueError) for arrays of different
\* length, UI <= 0, a captured span shorter than UI and empty arrays, and returns a
\* (sig, isi) pair for every other input.
C20_DomainErrors ==
    sig_out # NoneRec =>
        IF SigDomainCase(sig_in) THEN sig_out = [error |-> "ValueError"]
        ELSE DOMAIN sig_out = {"sig", "isi"}

\* the first and the last sample time of a non-empty capture
FirstTime(time_list) == -SetMax({-x : x \in Range(time_list)})
LastTime(time_list) == SetMax(Range(time_list))

\* a constant waveform of height H >= 0 with at least two samples, and the unit
\* interval the float difference of its last and first time
ConstantOverSpan(in) ==
    /\ Len(in.time_list) >= 2
    /\ Len(in.voltage_list) = Len(in.time_list)
    /\ \A i \in 1..Len(in.voltage_list) :
          in.voltage_list[i] = in.voltage_list[1] /\ in.voltage_list[i] >= 0
    /\ in.unit_interval = Fl(LastTime(in.time_list) - FirstTime(in.time_list))

\* C21: for a constant waveform of height H >= 0 and UI = t_last - t_first,
\* get_sig_isi returns sig = H * (t_last - t_first) and isi = 0, up to the rounding
\* of the unit interval.
C21_ConstantWaveform ==
    (sig_out # NoneRec /\ ConstantOverSpan(sig_in)) =>
        LET H == sig_in.voltage_list[1]
            span == LastTime(sig_in.time_list) - FirstTime(sig_in.time_list)
            tolerance == EnergyScale * H * Abs(sig_in.unit_interval - span)
        IN  /\ DOMAIN sig_out = {"sig", "isi"}
            /\ Abs(sig_out.sig - EnergyScale * H * span) <= tolerance
            /\ Abs(sig_out.isi) <= tolerance

\* single-ended TX groups by ascending sequence, then differential TX groups by
\* ascending minimum sequence
InClassificationOrder(objs) ==
    \A a, b \in 1..Len(objs) :
        a < b =>
            \/ objs[a].kind = "single" /\ objs[b].kind = "diff"
            \/ objs[a].kind = objs[b].kind /\ objs[a].sequence < objs[b].sequence

\* the TX objects under which a waveform is stored
StoredTxs ==
    UNION {{waveforms[j][i].tx : i \in 1..Len(waveforms[j])} : j \in 1..Len(waveforms)}

\* the scenario of TX number k drove that TX group: its netlist holds a source for
\* the ports of txs[k] and for no other TX group
DroveItsTx(k) ==
    \A i \in 1..Len(netlists[k].prune_result.txs) :
        CarriesSource(netlists[k], netlists[k].prune_result.txs[i])
            <=> OriginalLegs(netlists[k].prune_result, netlists[k].prune_result.txs[i])
                    = LegSequences(txs[k])

\* C22: a run calls the driver once per TX group in classification order, one call
\* after the other, the waveforms of a scenario being stored before the next call,
\* and every stored waveform is keyed by the TX group its call drove.
C22_SequentialScenarios ==
    /\ InClassificationOrder(txs)
    /\ Len(netlists) <= Len(txs)
    /\ \A k \in 1..Len(netlists) : netlists[k].active_tx = txs[k]
    /\ last_op = "run" => Len(netlists) = Len(txs)
    /\ last_op = "run:driver raised" =>
          StoredTxs \subseteq {txs[k] : k \in 1..(Len(netlists) - 1)}
    /\ \A tx \in StoredTxs :
          \E k \in 1..Len(netlists) : txs[k] = tx /\ DroveItsTx(k)

\* C23: after any set_txs and set_rxs calls every RX group has at most one expected
\* TX group, and that group is a member of the current TX list with the RX group's
\* kind and net (or sorted net-pair) identity.
C23_ExpectedTxIsCurrent ==
    \A j \in 1..Len(rxs) :
        rxs[j].expected_tx # NoneRec =>
            \E i \in 1..Len(txs) :
                /\ txs[i] = rxs[j].expected_tx
                /\ _tx_to_key(txs[i]) = _rx_to_key(rxs[j])

\* some S-parameter magnitude from a leg of the TX group to a leg of the RX group,
\* at some frequency, is at least the threshold in dB; a zero magnitude is minus
\* infinity
CouplingReaches(rx_sequences, tx_sequences, threshold) ==
    \/ threshold.neg_inf
    \/ \E f \in 1..Len(network.s), r \in rx_sequences, t \in tx_sequences :
          /\ network.s[f][r][t] > 0
          /\ 20 * Log10(network.s[f][r][t]) >= threshold.value

KeepExpected(e, j) ==
    \/ rxs[j].expected_tx = e.under.tx
    \/ CouplingReaches(LegSequences(rxs[j]), LegSequences(e.under.tx), e.under.threshold_db)

RequestsOnly ==
    run_count' # run_count \/ last_op' \in {"ensure", "ensure:cached", "ensure:RuntimeError"}

\* every result cached before the step is still cached, unchanged, after it
CacheKept ==
    \A key \in DOMAIN prune_cache :
        key \in DOMAIN prune_cache' /\ prune_cache'[key] = prune_cache[key]

\* every scenario of the run received the cached result, and that result was
\* computed for the scenario's own TX group
ReceivedOwnResult(built, cache) ==
    \A k \in 1..Len(built) :
        /\ _tx_to_key(built[k].active_tx) \in DOMAIN cache
        /\ built[k].prune_result = cache[_tx_to_key(built[k].active_tx)]
        /\ built[k].prune_result.under.tx = built[k].active_tx

C25_Step ==
    RequestsOnly =>
        /\ CacheKept
        /\ last_op' \in {"run", "run:driver raised"} => ReceivedOwnResult(netlists', prune_cache')

\* C25: between two invalidations the prune result of a TX group is computed at
\* most once, every later request (those of run after pre_run included) returns the
\* cached result unchanged, and no TX group receives the result of another.
C25_ComputedOncePerTx == [][C25_Step]_vars

\* the RX groups of the engine whose ports are all in the kept set of a result
KeptRxGroups(e) == {j \in 1..Len(rxs) : LegSequences(rxs[j]) \subseteq Kept(e)}

\* C26: the touchstone path of a prune result is an exported sub-network over
\* exactly the kept ports when a threshold is set, a network is present and fewer
\* RX groups are kept than there are; otherwise it is the original path.
C26_ExportedWhenRxDropped ==
    \A e \in CacheEntries :
        IF /\ e.under.threshold_db # NoneRec /\ network # NoneRec
           /\ Cardinality(KeptRxGroups(e)) < Len(rxs)
        THEN /\ e.touchstone_path.file = "trimmed"
             /\ e.touchstone_path.ports = e.kept_sequences
             /\ e.touchstone_path.port_count = Len(e.kept_sequences)
        ELSE e.touchstone_path = [file |-> "original"]

\* group g of the trimmed list of result e is base group b renumbered: same kind
\* and key, and leg by leg (positive first) the port that b has
ImageOf(e, g, b) ==
    /\ g.kind = b.kind /\ g.key = b.key
    /\ Len(g.legs) = Len(b.legs)
    /\ \A l \in 1..Len(g.legs) :
          /\ g.legs[l].sequence \in 1..Len(e.kept_sequences)
          /\ l \in 1..Len(b.legs)
          /\ e.kept_sequences[g.legs[l].sequence] = b.legs[l].sequence

\* C30: the trimmed list of a prune result classifies into as many TX groups as
\* the engine has, each the renumbered image of one of them with the same key,
\* members and positive/negative legs, and every kept RX group reappears with the
\* same legs.
C30_TopologyPreserved ==
    \A e \in CacheEntries :
        /\ Len(e.txs) = Len(txs)
        /\ \A k \in 1..Len(txs) : \E i \in 1..Len(e.txs) : ImageOf(e, e.txs[i], txs[k])
        /\ \A j \in KeptRxGroups(e) : \E i \in 1..Len(e.rxs) : ImageOf(e, e.rxs[i], rxs[j])

\* the port count of the touchstone file a prune result names: the original file has
\* one port per metadata entry
TouchstonePorts(path) ==
    IF path.file = "original" THEN Len(port_metadata) ELSE path.port_count

\* C29: in every netlist the S1 line has as many net nodes as the touchstone file on
\* the model line has ports: the original file only when every port is kept, else a
\* sub-network over exactly the kept ports in ascending original order.
C29_NetsMatchTouchstone ==
    \A k \in 1..Len(netlists) :
        /\ Len(netlists[k].nets) = TouchstonePorts(netlists[k].model)
        /\ IF Kept(netlists[k].prune_result) = AllSequences
           THEN netlists[k].model.file = "original"
           ELSE /\ netlists[k].model.file = "trimmed"
                /\ netlists[k].model.ports = SortedSeq(Kept(netlists[k].prune_result))

\* the polarity under which the entry of sequence q enters its bucket. As the claim
\* states it (as_stated), an entry without polarity is positive when it is the first
\* such entry of the bucket and negative otherwise; else it is positive when no
\* earlier entry of the bucket is positive, declared or assigned
Assigned(role, q, as_stated) ==
    IF ~Falsy(port_metadata[q].polarity) THEN port_metadata[q].polarity
    ELSE IF \E o \in Bucket(role, port_metadata[q]) :
                /\ o < q
                /\ IF as_stated THEN Falsy(port_metadata[o].polarity)
                   ELSE Falsy(port_metadata[o].polarity)
                            \/ port_metadata[o].polarity = "positive"
         THEN "negative" ELSE "positive"

\* the entries of the bucket of q that enter it under the polarity
Legs(role, q, polarity, as_stated) ==
    {o \in Bucket(role, port_metadata[q]) : Assigned(role, o, as_stated) = polarity}

\* one pair per bucket that has both legs, each leg the last entry of its polarity
PairsExpected(role, as_stated) ==
    {[pos |-> port_metadata[SetMax(Legs(role, q, "positive", as_stated))],
      neg |-> port_metadata[SetMax(Legs(role, q, "negative", as_stated))]] :
        q \in {o \in AllSequences :
                  /\ o \in Bucket(role, port_metadata[o])
                  /\ Legs(role, o, "positive", as_stated) # {}
                  /\ Legs(role, o, "negative", as_stated) # {}}}

Swapped(entries, a, b) ==
    [i \in 1..Len(entries) |->
        IF i = a THEN entries[b] ELSE IF i = b THEN entries[a] ELSE entries[i]]

\* for a bucket of two entries without polarity the first in input order is the
\* positive leg, and it is the other one when the two are given in the other order
SwapSwapsPositive(role) ==
    \A a, b \in AllSequences :
        (/\ a < b /\ Bucket(role, port_metadata[a]) = {a, b}
         /\ Falsy(port_metadata[a].polarity) /\ Falsy(port_metadata[b].polarity)) =>
            /\ [pos |-> port_metadata[a], neg |-> port_metadata[b]] \in Range(classified.pairs)
            /\ [pos |-> port_metadata[b], neg |-> port_metadata[a]]
                  \in Range(_group_differential(role, Swapped(port_metadata, a, b)))

PairsAre(expected) ==
    /\ Range(classified.pairs) = expected
    /\ Len(classified.pairs) = Cardinality(expected)

\* C27 as stated: an entry with a polarity keeps it, the first entry of a bucket
\* without polarity is positive and the second negative.
C27_Original ==
    classified # NoneRec =>
        /\ PairsAre(PairsExpected(classified.role, TRUE))
        /\ SwapSwapsPositive(classified.role)

\* C27: within a differential bucket an entry with a polarity keeps it, and an
\* entry without one is positive when no earlier entry of the bucket is positive
\* (declared or assigned) and negative otherwise; for a bucket of two entries
\* without polarity, swapping their input order swaps the positive leg.
C27_PolarityAssignment ==
    classified # NoneRec =>
        /\ PairsAre(PairsExpected(classified.role, FALSE))
        /\ SwapSwapsPositive(classified.role)

\* a pair whose negative leg had no polarity and follows a declared positive leg
C27_Witness ==
    /\ classified # NoneRec
    /\ \E i \in 1..Len(classified.pairs) :
          /\ classified.pairs[i].pos.polarity = "positive"
          /\ Falsy(classified.pairs[i].neg.polarity)
          /\ classified.pairs[i].pos.sequence < classified.pairs[i].neg.sequence

\* voltages in units of 2/EnergyScale: the area (ya + yb) * (xb - xa) of a trapezoid
\* between two such values is an energy in units of 1/EnergyScale
VScale == EnergyScale \div 2

\* the linearly interpolated voltage at time x of the sorted capture (t, v)
InterpolatedAt(t, v, x) ==
    LET j == SetMax({k \in 1..Len(t) : t[k] <= x})
    IN  IF j = Len(t) \/ t[j] = x THEN VScale * v[j]
        ELSE VScale * v[j]
                + (v[j + 1] - v[j]) * (x - t[j]) * (VScale \div (t[j + 1] - t[j]))

Magnitude(y, absolute) == IF absolute THEN Abs(y) ELSE y

\* the trapezoidal rule over [a, b] on the samples inside it and its two ends, for
\* the voltage or for its magnitude, summed over the sample intervals k..n-1
RECURSIVE ClippedArea(_, _, _, _, _, _)
ClippedArea(t, v, a, b, absolute, k) ==
    IF k >= Len(t) THEN 0
    ELSE LET lo == IF t[k] < a THEN a ELSE t[k]
             hi == IF t[k + 1] > b THEN b ELSE t[k + 1]
             piece == IF lo < hi
                      THEN (Magnitude(InterpolatedAt(t, v, lo), absolute)
                              + Magnitude(IF hi = t[k + 1] THEN VScale * v[k + 1]
                                          ELSE InterpolatedAt(t, v, hi), absolute))
                           * (hi - lo)
                      ELSE 0
         IN  piece + ClippedArea(t, v, a, b, absolute, k + 1)

\* an input past the checks: arrays of equal length, not empty, UI > 0 and a span
\* not shorter than UI
ValidInput(in) ==
    /\ Len(in.time_list) = Len(in.voltage_list) /\ in.time_list # <<>>
    /\ in.unit_interval > 0
    /\ ~(Fl(LastTime(in.time_list) - FirstTime(in.time_list)) < in.unit_interval)

SortedSamples(in) ==
    SortByTime([i \in 1..Len(in.time_list) |->
                  [t |-> in.time_list[i], v |-> in.voltage_list[i]]])

\* C28: for every valid input sig is the largest trapezoidal integral of the
\* interpolated voltage over a window [time[i], time[i] + UI] with
\* time[i] + UI <= time[last], and isi the trapezoidal integral of |voltage| over
\* the whole capture minus that over the earliest such window; isi >= 0.
C28_SlidingWindow ==
    (sig_out # NoneRec /\ ValidInput(sig_in)) =>
        LET samples == SortedSamples(sig_in)
            n == Len(samples)
            t == [i \in 1..n |-> samples[i].t]
            v == [i \in 1..n |-> samples[i].v]
            ui == sig_in.unit_interval
            starts == {i \in 1..n : Fl(t[i] + ui) <= t[n]}
            W(i) == ClippedArea(t, v, t[i], Fl(t[i] + ui), FALSE, 1)
            winners == {i \in starts : \A k \in starts : W(k) <= W(i)}
        IN  /\ DOMAIN sig_out = {"sig", "isi"}
            /\ starts # {}
            /\ \A i \in winners : sig_out.sig = W(i)
            /\ \A i \in winners :
                  (\A k \in winners : i <= k) =>
                      sig_out.isi = ClippedArea(t, v, t[1], t[n], TRUE, 1)
                                      - ClippedArea(t, v, t[i], Fl(t[i] + ui), TRUE, 1)
            /\ sig_out.isi >= 0

====
